---- MODULE Spec2Model ----
(***************************************************************************)
(* Session lifecycle, admission, end/winner/reward sequence and the        *)
(* auto-end job of the game-session backend.                               *)
(*                                                                         *)
(* One session document is modelled together with its PlayerSession rows   *)
(* and its TokenReward rows.  Every service method is an async function:   *)
(* each await is a point where another handler can run, so a handler is a  *)
(* sequence of steps working on the document it loaded (loc[p]) and        *)
(* writing back with Mongoose save(), which sends only the paths the       *)
(* handler modified: an array push is sent as $push (version incremented,  *)
(* no version condition), an array replacement is sent as $set guarded by  *)
(* the version key.                                                        *)
(***************************************************************************)
EXTENDS Integers, Sequences, FiniteSets, TLC

\* ---- bounds of the model ----
MaxOps == 3
MaxTime == 2
\* invocations of calculateWinner in ScoreSpec
MaxScoreCalls == 1
\* invocations of retryFailedReward and processPendingRewards in RewardSpec
MaxRewardOps == 5
\* storage failures during the sweeps of SweepSpec
MaxFaults == 1

\* ---- program constants ----
MaxRetryCount == 5
DefaultTokenAmount == 100
DefaultPointsPerTask == 10

Users == {"u1", "u2", "u3"}
Procs == {"p1", "p2"}
NULL == "null"
NoTime == -1

VARIABLES now, cfg, session, ps, rewards, users, loc, last, ops, hist,
          fleet, job, net

vars == <<now, cfg, session, ps, rewards, users, loc, last, ops, hist,
          fleet, job, net>>

\* the session collection swept by the auto-end job and the job's own
\* position
sweep == <<fleet, job>>

\* ---------------------------------------------------------------------
\* Pure helpers
\* ---------------------------------------------------------------------
RECURSIVE SumOver(_, _)
SumOver(f, S) ==
    IF S = {} THEN 0
    ELSE LET x == CHOOSE y \in S : TRUE IN f[x] + SumOver(f, S \ {x})

NoPlayers == [u \in Users |-> 0]

\* players.length (players is kept as a multiset: user -> occurrences)
playerCount(players) == SumOver(players, Users)

isFull(players) == playerCount(players) >= cfg.maxPlayers

\* isJoinable without the capacity check
isJoinableAnyLive(status, players) == status = "WAITING" \/ status = "LIVE"

isJoinable(status, players) ==
    status = "WAITING" \/ (status = "LIVE" /\ ~isFull(players))

IsTerminal(status) == status = "ENDED" \/ status = "CANCELLED"

\* the creator check left out
IsCreatorAnyone(userId) == TRUE

\* creator check of endSession / endSessionAndProcessRewards
IsCreator(userId) == cfg.creatorId = userId

\* start() scheduling an end whatever config.autoEnd says
ScheduledEndForAlways(startTime) == startTime + cfg.durationMinutes

\* scheduledEndTime computed by start()
ScheduledEndFor(startTime) ==
    IF cfg.autoEnd THEN startTime + cfg.durationMinutes ELSE NoTime

\* auto-start condition of addPlayer, evaluated on the loaded document
\* after the push
ShouldAutoStart(status, count) ==
    cfg.autoStart /\ status = "WAITING" /\ count >= cfg.minPlayersToStart

\* the query without its condition on scheduledEndTime
IsDueWhenLive(s, t) == s.status = "LIVE"

\* query of the auto-end job
IsDue(s, t) ==
    s.status = "LIVE" /\ s.scheduledEndTime # NoTime /\ s.scheduledEndTime <= t

\* the rows of the session whatever their isActive
ActivePlayersOfAll == {u \in Users : ps[u].exists}

\* PlayerSession.find({ sessionId, isActive: true })
ActivePlayers == {u \in Users : ps[u].exists /\ ps[u].isActive}

\* the POINTS order with the latest joiner first among equals
PointsBeforeLatestFirst(a, b) ==
    \/ ps[a].score > ps[b].score
    \/ ps[a].score = ps[b].score /\ ps[a].tasksCompleted > ps[b].tasksCompleted
    \/ /\ ps[a].score = ps[b].score
       /\ ps[a].tasksCompleted = ps[b].tasksCompleted
       /\ ps[a].joinedAt > ps[b].joinedAt

\* sort({ score: -1, tasksCompleted: -1, joinedAt: 1 }): a strictly before b
PointsBefore(a, b) ==
    \/ ps[a].score > ps[b].score
    \/ ps[a].score = ps[b].score /\ ps[a].tasksCompleted > ps[b].tasksCompleted
    \/ /\ ps[a].score = ps[b].score
       /\ ps[a].tasksCompleted = ps[b].tasksCompleted
       /\ ps[a].joinedAt < ps[b].joinedAt

\* the rows that can come first in calculateWinnerByPoints (rows equal on
\* all three sort keys come in an order the query does not fix)
calculateWinnerByPoints ==
    {u \in ActivePlayers : \A v \in ActivePlayers : ~PointsBefore(v, u)}

\* the TASKS query sorting like the POINTS query
TasksBeforeAsPoints(a, b) == PointsBefore(a, b)

\* sort({ tasksCompleted: -1, score: -1, joinedAt: 1 }): a strictly before b
TasksBefore(a, b) ==
    \/ ps[a].tasksCompleted > ps[b].tasksCompleted
    \/ ps[a].tasksCompleted = ps[b].tasksCompleted /\ ps[a].score > ps[b].score
    \/ /\ ps[a].tasksCompleted = ps[b].tasksCompleted
       /\ ps[a].score = ps[b].score
       /\ ps[a].joinedAt < ps[b].joinedAt

calculateWinnerByTasks ==
    {u \in ActivePlayers : \A v \in ActivePlayers : ~TasksBefore(v, u)}

\* a random row of the session, active or not
calculateWinnerRandomOfAll == {u \in Users : ps[u].exists}

\* any element of the active rows (Math.random over the query result)
calculateWinnerRandom == ActivePlayers

\* the weighted score without the task term
weightedScoreOfScore(u) == ps[u].score

\* weightedScore of calculateWinnerCombined (config.pointsPerTask is
\* positive: createSession stores the default in place of 0)
weightedScore(u) == ps[u].score + ps[u].tasksCompleted * cfg.pointsPerTask

\* the comparator without its score tie-break
CombinedCompareNoScore(a, b) ==
    IF weightedScore(b) # weightedScore(a)
    THEN weightedScore(b) - weightedScore(a)
    ELSE IF ps[b].tasksCompleted # ps[a].tasksCompleted
    THEN ps[b].tasksCompleted - ps[a].tasksCompleted
    ELSE ps[a].joinedAt - ps[b].joinedAt

\* the comparator of calculateWinnerCombined: negative when a sorts before b
CombinedCompare(a, b) ==
    IF weightedScore(b) # weightedScore(a)
    THEN weightedScore(b) - weightedScore(a)
    ELSE IF ps[b].score # ps[a].score
    THEN ps[b].score - ps[a].score
    ELSE IF ps[b].tasksCompleted # ps[a].tasksCompleted
    THEN ps[b].tasksCompleted - ps[a].tasksCompleted
    ELSE ps[a].joinedAt - ps[b].joinedAt

\* element 0 of the sorted array (rows the comparator calls equal keep the
\* order of the unsorted query result, which nothing fixes)
calculateWinnerCombined ==
    {u \in ActivePlayers : \A v \in ActivePlayers : CombinedCompare(v, u) >= 0}

\* the switch on config.scoringType in calculateWinner
StrategyWinners ==
    CASE cfg.scoringType = "POINTS" -> calculateWinnerByPoints
      [] cfg.scoringType = "TASKS" -> calculateWinnerByTasks
      [] cfg.scoringType = "RANDOM" -> calculateWinnerRandom
      [] cfg.scoringType = "COMBINED" -> calculateWinnerCombined
      [] OTHER -> calculateWinnerByPoints

\* the winner calculateWinner can arrive at: the strategy's, replaced by a
\* random row when config.enableRandomWinner is set
WinnerChoices ==
    IF cfg.enableRandomWinner THEN calculateWinnerRandom ELSE StrategyWinners

\* the sequences listing every element of S once
Listings(S) ==
    {f \in [1..Cardinality(S) -> S] :
        \A i, j \in 1..Cardinality(S) : i # j => f[i] # f[j]}

\* results of PlayerSession.calculateRanks' query: the active rows sorted by
\* { score: -1, tasksCompleted: -1, joinedAt: 1 }
calculateRanks ==
    {f \in Listings(ActivePlayers) :
        \A i, j \in 1..Cardinality(ActivePlayers) :
            i < j => ~PointsBefore(f[j], f[i])}

\* position of u in the listing f (0 if absent)
RankIn(f, u) ==
    IF \E i \in 1..Len(f) : f[i] = u
    THEN CHOOSE i \in 1..Len(f) : f[i] = u
    ELSE 0

canRetry(r) == r.status = "FAILED" /\ r.retryCount < MaxRetryCount

\* ---------------------------------------------------------------------
\* State
\* ---------------------------------------------------------------------
NoRow == [exists |-> FALSE, isActive |-> FALSE, joinedAt |-> NoTime,
          leftAt |-> NoTime, score |-> 0, tasksCompleted |-> 0,
          rank |-> 0, finalRank |-> 0]

\* a user document: its three counters
NoTotals == [totalTokensEarned |-> 0, totalSessionsWon |-> 0,
             totalSessionsJoined |-> 0]

\* the user document of someone who has joined the session once
JoinedOnce == [NoTotals EXCEPT !.totalSessionsJoined = 1]

IdleLoc == [pc |-> "idle", op |-> "none", user |-> "none", status |-> "none",
            players |-> NoPlayers, ver |-> 0, existing |-> "none",
            winner |-> NULL, rid |-> 0, rc |-> 0, total |-> 0, won |-> 0,
            via |-> "none", res |-> "none", joined |-> 0, queue |-> <<>>,
            score |-> -1, tasks |-> -1, start |-> -1, sched |-> -1,
            seq |-> 0, data |-> -1]

\* no session besides the modelled one, and the auto-end job not sweeping
NoFleet == <<>>

\* todo: the sessions the loop has still to process; seen: the result of
\* the query of the current (or last) run; log: the sessions processed in
\* that run, in order, with whether endSessionAndProcessRewards returned
IdleJob == [pc |-> "idle", todo |-> <<>>, seen |-> <<>>, log |-> <<>>,
            faults |-> 0]

\* the Socket.IO room of the session and what has been emitted: the
\* session_joined and player_joined events each connection received (there
\* is one connection per user) and the events emitted to the room;
\* userSessions: the users whose connection has the session in its
\* userSessions set; closed: the users whose connection has been lost;
\* playerLeft: the player_left events emitted about each user;
\* scoreUpdated: the score_updated events emitted to the room, in order;
\* scoreCommits: the saves of updatePerformance on behalf of an
\* update_score message, in the order they were written
NoNet == [room |-> {}, sessionJoined |-> [u \in Users |-> 0],
          playerJoined |-> [u \in Users |-> 0],
          started |-> 0, ended |-> 0, rewarded |-> 0,
          userSessions |-> {}, closed |-> {},
          playerLeft |-> [u \in Users |-> 0],
          scoreUpdated |-> <<>>, scoreCommits |-> <<>>]

NoResult == [op |-> "none", user |-> "none", res |-> "none"]

Configs ==
    {c \in [creatorId : {"u1"}, durationMinutes : {1}, maxPlayers : {2, 3},
            minPlayersToStart : {1, 2}, autoStart : BOOLEAN, autoEnd : BOOLEAN,
            scoringType : {"POINTS"}, pointsPerTask : {DefaultPointsPerTask},
            enableRandomWinner : {FALSE}] :
        c.minPlayersToStart <= c.maxPlayers}

\* state after createSession: a WAITING session with no players
Init ==
    /\ now = 0
    /\ cfg \in Configs
    /\ session = [status |-> "WAITING", players |-> NoPlayers, ver |-> 0,
                  winner |-> NULL, startTime |-> NoTime, endTime |-> NoTime,
                  scheduledEndTime |-> NoTime]
    /\ ps = [u \in Users |-> NoRow]
    /\ rewards = <<>>
    /\ users = [u \in Users |-> NoTotals]
    /\ loc = [p \in Procs |-> IdleLoc]
    /\ last = NoResult
    /\ ops = 0
    /\ hist = [endWrites |-> 0, startWrites |-> 0, endedWithActive |-> FALSE,
               activeAtEnd |-> {}]
    /\ fleet = NoFleet
    /\ job = IdleJob
    /\ net = NoNet

Free(p) == loc[p].pc = "idle"

\* the document a handler invocation starts with
Begin(op, u, pc) ==
    [IdleLoc EXCEPT !.pc = pc, !.op = op, !.user = u]

\* the handler goes on to its next await
Continue(p, l) ==
    /\ loc' = [loc EXCEPT ![p] = l]
    /\ UNCHANGED last

\* the handler returns or throws: last is the outcome of the invocation
\* that finished most recently
Return(p, op, u, res) ==
    /\ loc' = [loc EXCEPT ![p] = IdleLoc]
    /\ last' = [op |-> op, user |-> u, res |-> res]

Finish(p, res) == Return(p, loc[p].op, loc[p].user, res)

Tick ==
    /\ now < MaxTime
    /\ now' = now + 1
    /\ UNCHANGED <<sweep, net, cfg, session, ps, rewards, users, loc, last, ops, hist>>

\* ScoringService.getFinalLeaderboard: the active rows of the session, each
\* with the rank shown (finalRank || rank) and its place in the sort on
\* (finalRank, rank); an unset finalRank is 0 and sorts first
LeaderKeyBefore(a, b) ==
    \/ a.finalRank < b.finalRank
    \/ (a.finalRank = b.finalRank /\ a.rank < b.rank)

getFinalLeaderboard(rows) ==
    LET active == {u \in Users : rows[u].exists /\ rows[u].isActive} IN
    {[userId |-> u,
      rank |-> IF rows[u].finalRank # 0 THEN rows[u].finalRank
               ELSE rows[u].rank,
      score |-> rows[u].score,
      tasksCompleted |-> rows[u].tasksCompleted,
      place |-> 1 + Cardinality({v \in active :
                                   LeaderKeyBefore(rows[v], rows[u])})] :
     u \in active}

\* ---------------------------------------------------------------------
\* joinSession
\* ---------------------------------------------------------------------
\* the document joinSession loads, for a caller via = "rest" (controller)
\* or "socket" (JOIN_SESSION handler)
JoinLoaded(u, via) ==
    [Begin("join", u, "j_find") EXCEPT
        !.via = via,
        !.status = session.status,
        !.players = session.players,
        !.ver = session.ver]

\* error thrown when the loaded document is not joinable
JoinRefusal ==
    IF IsTerminal(session.status) \/ isFull(session.players)
    THEN "ConflictError" ELSE "ValidationError"

\* POST /:sessionId/join: findSessionById and the isJoinable check on the
\* loaded document
JoinLoad(p, u) ==
    /\ Free(p)
    /\ ops < MaxOps
    /\ ops' = ops + 1
    /\ IF isJoinable(session.status, session.players)
       THEN Continue(p, JoinLoaded(u, "rest"))
       ELSE Return(p, "join", u, JoinRefusal)
    /\ UNCHANGED <<sweep, net, now, cfg, users, session, ps, rewards, hist>>

\* PlayerSession.findOne and the already-joined check
JoinFindPS(p) ==
    /\ loc[p].pc = "j_find"
    /\ LET u == loc[p].user IN
       IF ps[u].exists /\ ps[u].isActive
       THEN Finish(p, "ConflictError")
       ELSE Continue(p, [loc[p] EXCEPT !.pc = "j_ps",
                !.existing = IF ps[u].exists THEN "inactive" ELSE "none",
                !.joined = users[u].totalSessionsJoined])
    /\ UNCHANGED <<sweep, net, now, cfg, users, session, ps, rewards, ops, hist>>

\* PlayerSession.create({sessionId, userId, score: 0, tasksCompleted: 0})
NewRow ==
    [exists |-> TRUE, isActive |-> TRUE, joinedAt |-> now, leftAt |-> NoTime,
     score |-> 0, tasksCompleted |-> 0, rank |-> 0, finalRank |-> 0]

\* a rejoin that starts over with a new row
ReactivatedAsNew(row) == NewRow

\* joinSession on a row found inactive: isActive = true, leftAt = null
Reactivated(row) == [row EXCEPT !.isActive = TRUE, !.leftAt = NoTime]

\* reactivate the row found, or create one (unique on the pair)
JoinSavePS(p) ==
    /\ loc[p].pc = "j_ps"
    /\ LET u == loc[p].user IN
       IF loc[p].existing = "inactive"
       THEN /\ ps' = [ps EXCEPT ![u] = Reactivated(@)]
            /\ Continue(p, [loc[p] EXCEPT !.pc = "j_add"])
       ELSE IF ps[u].exists
       THEN /\ Finish(p, "DuplicateKeyError")
            /\ UNCHANGED ps
       ELSE /\ ps' = [ps EXCEPT ![u] = NewRow]
            /\ Continue(p, [loc[p] EXCEPT !.pc = "j_add"])
    /\ UNCHANGED <<sweep, net, now, cfg, users, session, rewards, ops, hist>>

\* session.addPlayer (skipped when the loaded list already has the user):
\* push, start() when the auto-start condition holds on the loaded
\* document, save
JoinAddPlayer(p) ==
    /\ loc[p].pc = "j_add"
    /\ LET u == loc[p].user
           count == playerCount(loc[p].players) + 1
       IN
       IF loc[p].players[u] > 0
       THEN /\ Continue(p, [loc[p] EXCEPT !.pc = "j_inc", !.res = "ok"])
            /\ UNCHANGED <<session, hist>>
       ELSE IF ~isJoinable(loc[p].status, loc[p].players)
       THEN /\ Finish(p, "Error")
            /\ UNCHANGED <<session, hist>>
       ELSE IF ShouldAutoStart(loc[p].status, count)
       THEN /\ session' = [session EXCEPT
                    !.players[u] = @ + 1,
                    !.ver = @ + 1,
                    !.status = "LIVE",
                    !.startTime = now,
                    !.scheduledEndTime = ScheduledEndFor(now)]
            /\ hist' = [hist EXCEPT !.startWrites = @ + 1]
            /\ Continue(p, [loc[p] EXCEPT !.pc = "j_inc", !.res = "started"])
       ELSE /\ session' = [session EXCEPT !.players[u] = @ + 1, !.ver = @ + 1]
            /\ Continue(p, [loc[p] EXCEPT !.pc = "j_inc", !.res = "ok"])
            /\ UNCHANGED hist
    /\ UNCHANGED <<sweep, net, now, cfg, users, ps, rewards, ops>>

\* user.incrementSessionsJoined() on the user document loaded after the
\* already-joined check; a REST join then reads the session once more and
\* returns it, a socket join goes on in the socket handler
incrementSessionsJoined(p) ==
    /\ loc[p].pc = "j_inc"
    /\ users' = [users EXCEPT
                    ![loc[p].user].totalSessionsJoined = loc[p].joined + 1]
    /\ IF loc[p].via = "socket"
       THEN Continue(p, [loc[p] EXCEPT !.pc = "k_joined"])
       ELSE Finish(p, loc[p].res)
    /\ UNCHANGED <<sweep, net, now, cfg, session, ps, rewards, ops, hist>>

\* ---------------------------------------------------------------------
\* leaveSession
\* ---------------------------------------------------------------------
LeaveLoad(p, u) ==
    /\ Free(p)
    /\ ops < MaxOps
    /\ ops' = ops + 1
    /\ Continue(p, [Begin("leave", u, "l_find") EXCEPT
                       !.status = session.status,
                       !.players = session.players, !.ver = session.ver])
    /\ UNCHANGED <<sweep, net, now, cfg, users, session, ps, rewards, hist>>

LeaveFindPS(p) ==
    /\ loc[p].pc = "l_find"
    /\ LET u == loc[p].user IN
       IF ~ps[u].exists THEN Finish(p, "NotFoundError")
       ELSE IF ~ps[u].isActive THEN Finish(p, "ValidationError")
       ELSE Continue(p, [loc[p] EXCEPT !.pc = "l_ps"])
    /\ UNCHANGED <<sweep, net, now, cfg, users, session, ps, rewards, ops, hist>>

\* playerSession.leaveSession()
LeaveSavePS(p) ==
    /\ loc[p].pc = "l_ps"
    /\ ps' = [ps EXCEPT ![loc[p].user].isActive = FALSE,
                        ![loc[p].user].leftAt = now]
    /\ Continue(p, [loc[p] EXCEPT !.pc = "l_rm"])
    /\ UNCHANGED <<sweep, net, now, cfg, users, session, rewards, ops, hist>>

\* a save of the players array that is not tied to the loaded version
VersionAny(ver) == TRUE

\* the condition on __v of a save that replaces the players array
VersionMatches(ver) == session.ver = ver

\* leaveSession has returned: the REST controller answers; the socket
\* LEAVE_SESSION handler leaves the room, deletes the session from
\* userSessions and goes on to announce the leave, as does the disconnect
\* handler
LeaveDone(p) ==
    IF loc[p].via = "socket"
    THEN /\ Continue(p, [loc[p] EXCEPT !.pc = "k_left"])
         /\ net' = [net EXCEPT !.room = @ \ {loc[p].user},
                               !.userSessions = @ \ {loc[p].user}]
    ELSE IF loc[p].via = "disconnect"
    THEN /\ Continue(p, [loc[p] EXCEPT !.pc = "k_left"])
         /\ UNCHANGED net
    ELSE /\ Finish(p, "ok")
         /\ UNCHANGED net

\* session.removePlayer: the loaded list without the user replaces the
\* stored list if the stored version is still the loaded one
LeaveRemovePlayer(p) ==
    /\ loc[p].pc = "l_rm"
    /\ LET u == loc[p].user IN
       IF loc[p].players[u] = 0
       THEN /\ LeaveDone(p)
            /\ UNCHANGED session
       ELSE IF ~VersionMatches(loc[p].ver)
       THEN /\ Finish(p, "VersionError")
            /\ UNCHANGED <<session, net>>
       ELSE /\ session' = [session EXCEPT
                    !.players = [loc[p].players EXCEPT ![u] = 0],
                    !.ver = @ + 1]
            /\ LeaveDone(p)
    /\ UNCHANGED <<sweep, now, cfg, users, ps, rewards, ops, hist>>

\* ---------------------------------------------------------------------
\* endSession (POST /:sessionId/end)
\* ---------------------------------------------------------------------
\* gameSessionSchema.methods.end on the loaded document: the stored
\* status and endTime are overwritten; scheduledEndTime = null is a
\* modification, and is written, only if the loaded document had one
EndWrite(sched) ==
    /\ session' = [session EXCEPT
                       !.status = "ENDED", !.endTime = now,
                       !.scheduledEndTime = IF sched = NoTime THEN @ ELSE NoTime]
    /\ hist' = [hist EXCEPT !.endWrites = @ + 1,
                            !.endedWithActive = (ActivePlayers # {}),
                            !.activeAtEnd = ActivePlayers]

\* result of the creator check and the already-ended check
EndChecks(userId, status) ==
    IF ~IsCreator(userId) THEN "AuthorizationError"
    ELSE IF IsTerminal(status) THEN "ConflictError"
    ELSE "ok"

EndLoad(p, u) ==
    /\ Free(p)
    /\ ops < MaxOps
    /\ ops' = ops + 1
    /\ IF EndChecks(u, session.status) = "ok"
       THEN Continue(p, [Begin("end", u, "e_save") EXCEPT
                            !.status = session.status,
                            !.sched = session.scheduledEndTime])
       ELSE Return(p, "end", u, EndChecks(u, session.status))
    /\ UNCHANGED <<sweep, net, now, cfg, users, session, ps, rewards, hist>>

EndSave(p) ==
    /\ loc[p].pc = "e_save"
    /\ IF IsTerminal(loc[p].status)
       THEN /\ Finish(p, "Error")
            /\ UNCHANGED <<session, hist>>
       ELSE /\ EndWrite(loc[p].sched)
            /\ Finish(p, "ok")
    /\ UNCHANGED <<sweep, net, now, cfg, users, ps, rewards, ops>>

\* ---------------------------------------------------------------------
\* auto-end job: checkAndEndSessions -> endSessionAndProcessRewards
\* ---------------------------------------------------------------------
\* one run of the job whose query finds the session; it is ended in the
\* name of its creator (session.creatorId._id)
AutoEndQuery(p) ==
    /\ Free(p)
    /\ ops < MaxOps
    /\ IsDue(session, now)
    /\ ops' = ops + 1
    /\ Continue(p, Begin("autoEnd", cfg.creatorId, "r_load"))
    /\ UNCHANGED <<sweep, net, now, cfg, users, session, ps, rewards, hist>>

AutoEndLoad(p) ==
    /\ loc[p].pc = "r_load"
    /\ IF EndChecks(loc[p].user, session.status) = "ok"
       THEN Continue(p, [loc[p] EXCEPT !.pc = "r_end",
                                       !.status = session.status,
                                       !.sched = session.scheduledEndTime])
       ELSE Finish(p, EndChecks(loc[p].user, session.status))
    /\ UNCHANGED <<sweep, net, now, cfg, users, session, ps, rewards, ops, hist>>

AutoEndSave(p) ==
    /\ loc[p].pc = "r_end"
    /\ IF IsTerminal(loc[p].status)
       THEN /\ Finish(p, "Error")
            /\ UNCHANGED <<session, hist>>
       ELSE /\ EndWrite(loc[p].sched)
            /\ Continue(p, [loc[p] EXCEPT !.pc = "r_cw", !.status = "none",
                                          !.sched = NoTime])
    /\ UNCHANGED <<sweep, net, now, cfg, users, ps, rewards, ops>>

\* broadcastService.notifySessionEnded / notifyTokenRewarded: one more
\* session_ended, one more token_rewarded emitted to the room
notifySessionEnded(n) == [n EXCEPT !.ended = @ + 1]

notifyTokenRewarded(n) == [n EXCEPT !.rewarded = @ + 1]

\* the last lines of endSessionAndProcessRewards, which the auto-end job
\* calls with its broadcast service: session_ended is emitted, and
\* token_rewarded if awardToken returned a transaction hash
\* (calculateWinner called on its own emits nothing)
EndBroadcasts(p, paid) ==
    net' = IF loc[p].op # "autoEnd" THEN net
           ELSE IF paid THEN notifyTokenRewarded(notifySessionEnded(net))
           ELSE notifySessionEnded(net)

\* calculateWinner: load the session again, require ENDED, query the
\* active rows (no row: no winner, nothing else is done) and pick the
\* winner
CalcWinnerLoad(p) ==
    /\ loc[p].pc = "r_cw"
    /\ IF session.status # "ENDED"
       THEN /\ Finish(p, "ValidationError")
            /\ UNCHANGED net
       ELSE IF ActivePlayers = {}
       THEN /\ Finish(p, "noWinner")
            /\ EndBroadcasts(p, FALSE)
       ELSE /\ \E w \in WinnerChoices :
                  Continue(p, [loc[p] EXCEPT !.pc = "r_cwsave", !.winner = w])
            /\ UNCHANGED net
    /\ UNCHANGED <<sweep, now, cfg, users, session, ps, rewards, ops, hist>>

\* session.winner = ...; session.save()
CalcWinnerSave(p) ==
    /\ loc[p].pc = "r_cwsave"
    /\ session' = [session EXCEPT !.winner = loc[p].winner]
    /\ Continue(p, [loc[p] EXCEPT !.pc = "r_ranks"])
    /\ UNCHANGED <<sweep, net, now, cfg, users, ps, rewards, ops, hist>>

\* calculateFinalRanks: PlayerSession.calculateRanks numbers the active rows
\* in its own sort order and saves rank, then finalRank = rank is saved on
\* each (no other handler reads or writes the two fields, so the saves are
\* one step); calculateWinner then returns the winner to its caller
calculateFinalRanks(p) ==
    /\ loc[p].pc = "r_ranks"
    /\ \E f \in calculateRanks :
          ps' = [u \in Users |->
                    IF RankIn(f, u) > 0
                    THEN [ps[u] EXCEPT !.rank = RankIn(f, u),
                                       !.finalRank = RankIn(f, u)]
                    ELSE ps[u]]
    /\ IF loc[p].op = "calculateWinner"
       THEN Finish(p, "winner")
       ELSE Continue(p, [loc[p] EXCEPT !.pc = "r_award"])
    /\ UNCHANGED <<sweep, net, now, cfg, users, session, rewards, ops, hist>>

\* awardToken: User.findById, TokenReward.findBySession, throw if a reward
\* exists (the caller catches it and carries on)
AwardCheck(p) ==
    /\ loc[p].pc = "r_award"
    /\ IF Len(rewards) > 0
       THEN /\ Finish(p, "RewardExists")
            /\ EndBroadcasts(p, FALSE)
       ELSE /\ Continue(p, [loc[p] EXCEPT
                   !.pc = "r_create",
                   !.total = users[loc[p].winner].totalTokensEarned])
            /\ UNCHANGED net
    /\ UNCHANGED <<sweep, now, cfg, users, session, ps, rewards, ops, hist>>

\* TokenReward.create({... status: PENDING})
AwardCreate(p) ==
    /\ loc[p].pc = "r_create"
    /\ rewards' = Append(rewards, [userId |-> loc[p].winner,
                                   tokenAmount |-> DefaultTokenAmount,
                                   status |-> "PENDING", retryCount |-> 0,
                                   hasTx |-> FALSE, hasError |-> FALSE,
                                   paid |-> 0])
    /\ Continue(p, [loc[p] EXCEPT !.pc = "r_pay", !.rid = Len(rewards) + 1,
                                  !.rc = 0])
    /\ UNCHANGED <<sweep, net, now, cfg, users, session, ps, ops, hist>>

\* reward.markCompleted(txHash) after the transport has returned a
\* transaction: status, transactionHash and the dates of the handler's
\* document are saved (paid counts the transfers made for the record)
markCompleted(rid) ==
    rewards' = [rewards EXCEPT ![rid].status = "COMPLETED", ![rid].hasTx = TRUE,
                               ![rid].paid = @ + 1]

\* reward.markFailed(message): status, errorMessage and retryCount (the
\* loaded count plus one) are saved, unless the schema's max on retryCount
\* rejects the document
markFailed(rid, rc) ==
    IF rc + 1 > MaxRetryCount
    THEN UNCHANGED rewards
    ELSE rewards' = [rewards EXCEPT ![rid].status = "FAILED",
                                    ![rid].hasError = TRUE,
                                    ![rid].retryCount = rc + 1]

\* the transport call of awardToken, then markCompleted or markFailed on
\* the created record
AwardPay(p) ==
    /\ loc[p].pc = "r_pay"
    /\ \E sent \in BOOLEAN :
         IF sent
         THEN /\ markCompleted(loc[p].rid)
              /\ Continue(p, [loc[p] EXCEPT !.pc = "r_tokens"])
              /\ UNCHANGED net
         ELSE /\ markFailed(loc[p].rid, loc[p].rc)
              /\ Finish(p, "TransportError")
              /\ EndBroadcasts(p, FALSE)
    /\ UNCHANGED <<sweep, now, cfg, users, session, ps, ops, hist>>

\* user.addTokensEarned(amount) on the user document loaded at the start
\* of awardToken / retryFailedReward; in the end sequence the winner is
\* then loaded again for incrementSessionsWon
addTokensEarned(p) ==
    /\ loc[p].pc = "r_tokens"
    /\ LET w == rewards[loc[p].rid].userId
           amount == rewards[loc[p].rid].tokenAmount
       IN
       /\ users' = [users EXCEPT ![w].totalTokensEarned = loc[p].total + amount]
       /\ IF loc[p].op = "autoEnd"
          THEN Continue(p, [loc[p] EXCEPT !.pc = "r_won",
                                          !.won = users[w].totalSessionsWon])
          ELSE Finish(p, "rewarded")
    /\ UNCHANGED <<sweep, net, now, cfg, session, ps, rewards, ops, hist>>

\* winnerUser.incrementSessionsWon()
incrementSessionsWon(p) ==
    /\ loc[p].pc = "r_won"
    /\ users' = [users EXCEPT
                    ![loc[p].winner].totalSessionsWon = loc[p].won + 1]
    /\ Finish(p, "rewarded")
    /\ EndBroadcasts(p, TRUE)
    /\ UNCHANGED <<sweep, now, cfg, session, ps, rewards, ops, hist>>

\* ---------------------------------------------------------------------
Next ==
    \/ Tick
    \/ \E p \in Procs, u \in Users : JoinLoad(p, u)
    \/ \E p \in Procs : JoinFindPS(p)
    \/ \E p \in Procs : JoinSavePS(p)
    \/ \E p \in Procs : JoinAddPlayer(p)
    \/ \E p \in Procs : incrementSessionsJoined(p)
    \/ \E p \in Procs, u \in Users : LeaveLoad(p, u)
    \/ \E p \in Procs : LeaveFindPS(p)
    \/ \E p \in Procs : LeaveSavePS(p)
    \/ \E p \in Procs : LeaveRemovePlayer(p)
    \/ \E p \in Procs, u \in Users : EndLoad(p, u)
    \/ \E p \in Procs : EndSave(p)
    \/ \E p \in Procs : AutoEndQuery(p)
    \/ \E p \in Procs : AutoEndLoad(p)
    \/ \E p \in Procs : AutoEndSave(p)
    \/ \E p \in Procs : CalcWinnerLoad(p)
    \/ \E p \in Procs : CalcWinnerSave(p)
    \/ \E p \in Procs : calculateFinalRanks(p)
    \/ \E p \in Procs : AwardCheck(p)
    \/ \E p \in Procs : AwardCreate(p)
    \/ \E p \in Procs : AwardPay(p)
    \/ \E p \in Procs : addTokensEarned(p)
    \/ \E p \in Procs : incrementSessionsWon(p)

Spec == Init /\ [][Next]_vars

\* ---------------------------------------------------------------------
\* ScoreSpec: calculateWinner applied to the rows of a started session
\* ---------------------------------------------------------------------
ScoreValues == {50, 60}
TaskValues == {1, 2}
JoinTimes == {0, 1}

\* rows of a started session: scores and task counts as updatePlayerScore
\* stores them, participants who left, users who never joined
ScoreRows ==
    [exists : {TRUE}, isActive : {TRUE}, joinedAt : JoinTimes,
     leftAt : {NoTime}, score : ScoreValues, tasksCompleted : TaskValues,
     rank : {0}, finalRank : {0}]
    \cup [exists : {TRUE}, isActive : {FALSE}, joinedAt : {0},
          leftAt : {1}, score : ScoreValues, tasksCompleted : {2},
          rank : {0}, finalRank : {0}]
    \cup {NoRow}

\* pointsPerTask is read by the COMBINED strategy only
ScoreConfigs ==
    {c \in [creatorId : {"u1"}, durationMinutes : {1}, maxPlayers : {3},
            minPlayersToStart : {1}, autoStart : {TRUE}, autoEnd : {TRUE},
            scoringType : {"POINTS", "TASKS", "RANDOM", "COMBINED"},
            pointsPerTask : {DefaultPointsPerTask, 2 * DefaultPointsPerTask},
            enableRandomWinner : BOOLEAN] :
        c.pointsPerTask # DefaultPointsPerTask => c.scoringType = "COMBINED"}

\* a session that was started at 0 and is LIVE or has just been saved ENDED
ScoreInit ==
    /\ now = 1
    /\ cfg \in ScoreConfigs
    /\ ps \in [Users -> ScoreRows]
    /\ \E status \in {"LIVE", "ENDED"} :
          /\ session = [status |-> status,
                        players |-> [u \in Users |->
                                        IF ps[u].exists /\ ps[u].isActive
                                        THEN 1 ELSE 0],
                        ver |-> 0, winner |-> NULL, startTime |-> 0,
                        endTime |-> IF status = "ENDED" THEN now ELSE NoTime,
                        scheduledEndTime |->
                            IF status = "ENDED" THEN NoTime ELSE ScheduledEndFor(0)]
          /\ hist = [endWrites |-> IF status = "ENDED" THEN 1 ELSE 0,
                     startWrites |-> 1,
                     endedWithActive |-> (status = "ENDED" /\ ActivePlayers # {}),
                     activeAtEnd |-> IF status = "ENDED" THEN ActivePlayers ELSE {}]
    /\ rewards = <<>>
    /\ users = [u \in Users |-> IF ps[u].exists THEN JoinedOnce ELSE NoTotals]
    /\ loc = [p \in Procs |-> IdleLoc]
    /\ last = NoResult
    /\ ops = 0
    /\ fleet = NoFleet
    /\ job = IdleJob
    /\ net = NoNet

\* scoringService.calculateWinner(sessionId) is called
CalcWinnerCall(p) ==
    /\ \A q \in Procs : Free(q)
    /\ ops < MaxScoreCalls
    /\ ops' = ops + 1
    /\ Continue(p, Begin("calculateWinner", cfg.creatorId, "r_cw"))
    /\ UNCHANGED <<sweep, net, now, cfg, users, session, ps, rewards, hist>>

ScoreNext ==
    \/ \E p \in Procs : CalcWinnerCall(p)
    \/ \E p \in Procs : CalcWinnerLoad(p)
    \/ \E p \in Procs : CalcWinnerSave(p)
    \/ \E p \in Procs : calculateFinalRanks(p)

ScoreSpec == ScoreInit /\ [][ScoreNext]_vars

\* ---------------------------------------------------------------------
\* RewardSpec: awardToken at the end of an end sequence, and
\* retryFailedReward on the records it leaves
\* ---------------------------------------------------------------------
\* retryFailedReward: TokenReward.findById and the canRetry check
RetryLoad(p, i) ==
    /\ Free(p)
    /\ ops < MaxRewardOps
    /\ i \in 1..Len(rewards)
    /\ ops' = ops + 1
    /\ IF canRetry(rewards[i])
       THEN Continue(p, [Begin("retry", rewards[i].userId, "t_reset") EXCEPT
                            !.rid = i, !.rc = rewards[i].retryCount])
       ELSE Return(p, "retry", rewards[i].userId, "ValidationError")
    /\ UNCHANGED <<sweep, net, now, cfg, users, session, ps, rewards, hist>>

\* reward.retry() on the loaded document (which passed canRetry): status
\* PENDING and errorMessage null are saved; then User.findById
RetryReset(p) ==
    /\ loc[p].pc = "t_reset"
    /\ rewards' = [rewards EXCEPT ![loc[p].rid].status = "PENDING",
                                  ![loc[p].rid].hasError = FALSE]
    /\ Continue(p, [loc[p] EXCEPT
             !.pc = "t_pay",
             !.total = users[rewards[loc[p].rid].userId].totalTokensEarned])
    /\ UNCHANGED <<sweep, net, now, cfg, users, session, ps, ops, hist>>

\* the transport call of retryFailedReward, then markCompleted (and
\* addTokensEarned next) or markFailed
RetryPay(p) ==
    /\ loc[p].pc = "t_pay"
    /\ \E sent \in BOOLEAN :
         IF sent
         THEN /\ markCompleted(loc[p].rid)
              /\ Continue(p, [loc[p] EXCEPT !.pc = "r_tokens"])
         ELSE /\ markFailed(loc[p].rid, loc[p].rc)
              /\ Finish(p, "TransportError")
    /\ UNCHANGED <<sweep, net, now, cfg, users, session, ps, ops, hist>>

\* processPendingRewards: TokenReward.findPending(); the documents of the
\* loop are the ones this query loaded
PendQuery(p) ==
    /\ Free(p)
    /\ ops < MaxRewardOps
    /\ ops' = ops + 1
    /\ LET pending == SelectSeq([i \in 1..Len(rewards) |->
                                    [rid |-> i, rc |-> rewards[i].retryCount]],
                                LAMBDA e : rewards[e.rid].status = "PENDING")
       IN IF pending = <<>>
          THEN Return(p, "pending", "none", "processed")
          ELSE Continue(p, [Begin("pending", "none", "q_user") EXCEPT
                               !.queue = pending])
    /\ UNCHANGED <<sweep, net, now, cfg, users, session, ps, rewards, hist>>

\* the loop goes to its next document, or processPendingRewards returns
PendAdvance(p) ==
    IF Len(loc[p].queue) > 1
    THEN Continue(p, [loc[p] EXCEPT !.pc = "q_user", !.queue = Tail(@)])
    ELSE Finish(p, "processed")

\* User.findById(reward.userId) for the document at the head of the loop
PendUser(p) ==
    /\ loc[p].pc = "q_user"
    /\ LET e == Head(loc[p].queue) IN
       Continue(p, [loc[p] EXCEPT
           !.pc = "q_pay", !.rid = e.rid, !.rc = e.rc,
           !.total = users[rewards[e.rid].userId].totalTokensEarned])
    /\ UNCHANGED <<sweep, net, now, cfg, users, session, ps, rewards, ops, hist>>

\* the transport call of processPendingRewards, then markCompleted (and
\* addTokensEarned next) or markFailed in the catch and the next document
PendPay(p) ==
    /\ loc[p].pc = "q_pay"
    /\ \E sent \in BOOLEAN :
         IF sent
         THEN /\ markCompleted(loc[p].rid)
              /\ Continue(p, [loc[p] EXCEPT !.pc = "q_tokens"])
         ELSE /\ markFailed(loc[p].rid, loc[p].rc)
              /\ PendAdvance(p)
    /\ UNCHANGED <<sweep, net, now, cfg, users, session, ps, ops, hist>>

\* user.addTokensEarned(reward.tokenAmount) in processPendingRewards
PendTokens(p) ==
    /\ loc[p].pc = "q_tokens"
    /\ LET w == rewards[loc[p].rid].userId
           amount == rewards[loc[p].rid].tokenAmount
       IN users' = [users EXCEPT ![w].totalTokensEarned = loc[p].total + amount]
    /\ PendAdvance(p)
    /\ UNCHANGED <<sweep, net, now, cfg, session, ps, rewards, ops, hist>>

\* the save of user.addTokensEarned throws (the storage is unavailable):
\* the catch around the transport call and the two saves runs
\* reward.markFailed on the handler's document; awardToken's error is caught
\* by the end sequence, retryFailedReward rethrows, processPendingRewards
\* goes to its next document
TokensSaveFails(p) ==
    /\ loc[p].pc \in {"r_tokens", "q_tokens"}
    /\ markFailed(loc[p].rid, loc[p].rc)
    /\ IF loc[p].pc = "q_tokens"
       THEN PendAdvance(p) /\ UNCHANGED net
       ELSE Finish(p, "SaveError") /\ EndBroadcasts(p, FALSE)
    /\ UNCHANGED <<sweep, now, cfg, users, session, ps, ops, hist>>

\* an ended session whose winner has been saved and ranked: one end
\* sequence, or two overlapping ones, are about to call awardToken
RewardInit ==
    /\ now = 1
    /\ cfg \in {c \in Configs : c.autoStart /\ c.autoEnd
                                /\ c.minPlayersToStart = 1 /\ c.maxPlayers = 2}
    /\ session = [status |-> "ENDED", players |-> [NoPlayers EXCEPT !["u2"] = 1],
                  ver |-> 1, winner |-> "u2", startTime |-> 0, endTime |-> 1,
                  scheduledEndTime |-> NoTime]
    /\ ps = [u \in Users |->
                IF u = "u2"
                THEN [exists |-> TRUE, isActive |-> TRUE, joinedAt |-> 0,
                      leftAt |-> NoTime, score |-> 0, tasksCompleted |-> 0,
                      rank |-> 1, finalRank |-> 1]
                ELSE NoRow]
    /\ rewards = <<>>
    /\ users = [u \in Users |-> IF u = "u2" THEN JoinedOnce ELSE NoTotals]
    /\ fleet = NoFleet
    /\ job = IdleJob
    /\ net = NoNet
    /\ \E overlap \in BOOLEAN :
          /\ loc = [p \in Procs |->
                      IF p = "p1" \/ overlap
                      THEN [Begin("autoEnd", cfg.creatorId, "r_award")
                               EXCEPT !.winner = "u2"]
                      ELSE IdleLoc]
          /\ hist = [endWrites |-> IF overlap THEN 2 ELSE 1, startWrites |-> 1,
                     endedWithActive |-> TRUE, activeAtEnd |-> {"u2"}]
    /\ last = [op |-> "join", user |-> "u2", res |-> "started"]
    /\ ops = 0

RewardNext ==
    \/ \E p \in Procs : AwardCheck(p)
    \/ \E p \in Procs : AwardCreate(p)
    \/ \E p \in Procs : AwardPay(p)
    \/ \E p \in Procs : addTokensEarned(p)
    \/ \E p \in Procs : incrementSessionsWon(p)
    \/ \E p \in Procs, i \in 1..2 : RetryLoad(p, i)
    \/ \E p \in Procs : RetryReset(p)
    \/ \E p \in Procs : RetryPay(p)
    \/ \E p \in Procs : PendQuery(p)
    \/ \E p \in Procs : PendUser(p)
    \/ \E p \in Procs : PendPay(p)
    \/ \E p \in Procs : PendTokens(p)
    \/ \E p \in Procs : TokensSaveFails(p)

RewardSpec == RewardInit /\ [][RewardNext]_vars

\* ---------------------------------------------------------------------
\* SweepSpec: checkAndEndSessions over a collection of sessions
\* ---------------------------------------------------------------------
SessionIds == {"s1", "s2", "s3"}

\* sessions as createSession, joins, start() and the end operations leave
\* them: active tells whether a PlayerSession of the session is active,
\* winner whether session.winner is set, reward the status of the
\* session's TokenReward
FleetRows ==
    [status : {"WAITING"}, scheduledEndTime : {NoTime}, endTime : {NoTime},
     active : BOOLEAN, winner : {FALSE}, reward : {"none"}]
    \cup [status : {"LIVE"}, scheduledEndTime : {NoTime, 1, 2},
          endTime : {NoTime}, active : BOOLEAN, winner : {FALSE},
          reward : {"none"}]
    \cup {r \in [status : {"ENDED"}, scheduledEndTime : {NoTime}, endTime : {1},
                 active : BOOLEAN, winner : BOOLEAN,
                 reward : {"none", "COMPLETED", "FAILED"}] :
            /\ r.winner => r.active
            /\ r.reward # "none" <=> r.winner}

SweepInit ==
    /\ now = 1
    /\ cfg \in {c \in Configs : c.autoStart /\ c.autoEnd
                                /\ c.minPlayersToStart = 1 /\ c.maxPlayers = 2}
    /\ session = [status |-> "WAITING", players |-> NoPlayers, ver |-> 0,
                  winner |-> NULL, startTime |-> NoTime, endTime |-> NoTime,
                  scheduledEndTime |-> NoTime]
    /\ ps = [u \in Users |-> NoRow]
    /\ rewards = <<>>
    /\ users = [u \in Users |-> NoTotals]
    /\ loc = [p \in Procs |-> IdleLoc]
    /\ last = NoResult
    /\ ops = 0
    /\ hist = [endWrites |-> 0, startWrites |-> 0, endedWithActive |-> FALSE,
               activeAtEnd |-> {}]
    /\ fleet \in [SessionIds -> FleetRows]
    /\ job = IdleJob
    /\ net = NoNet

SweepFrame ==
    UNCHANGED <<net, cfg, session, ps, rewards, users, loc, last, ops, hist>>

\* the loop gives up at the first session that fails
AfterSessionAbort(j, s, ok) ==
    [j EXCEPT !.pc = IF ok /\ Len(j.todo) > 1 THEN "load" ELSE "idle",
              !.todo = IF ok THEN Tail(@) ELSE <<>>,
              !.log = Append(@, [s |-> s, ok |-> ok])]

\* the for loop of checkAndEndSessions after the session at its head: the
\* try/catch inside the loop swallows the error of a session that failed,
\* and the loop goes to the next session or the run returns
AfterSession(j, s, ok) ==
    [j EXCEPT !.pc = IF Len(j.todo) > 1 THEN "load" ELSE "idle",
              !.todo = Tail(@),
              !.log = Append(@, [s |-> s, ok |-> ok])]

\* a run of checkAndEndSessions starts: GameSession.find({status: LIVE,
\* scheduledEndTime: {$lte: now}}), in whatever order the storage returns
SweepQuery ==
    /\ job.pc = "idle"
    /\ LET due == {s \in SessionIds : IsDue(fleet[s], now)} IN
       \E f \in Listings(due) :
           job' = [job EXCEPT !.pc = IF due = {} THEN "idle" ELSE "load",
                              !.todo = f, !.seen = f, !.log = <<>>]
    /\ UNCHANGED <<fleet, now>>
    /\ SweepFrame

\* endSessionAndProcessRewards for the session at the head of the loop:
\* findSessionById (which can throw when the storage fails), the creator
\* check (the job passes the creator) and the already-ended check
SweepLoad ==
    /\ job.pc = "load"
    /\ LET s == Head(job.todo) IN
       \/ /\ job.faults < MaxFaults
          /\ job' = [AfterSession(job, s, FALSE) EXCEPT !.faults = @ + 1]
       \/ /\ IsTerminal(fleet[s].status)
          /\ job' = AfterSession(job, s, FALSE)
       \/ /\ ~IsTerminal(fleet[s].status)
          /\ job' = [job EXCEPT !.pc = "end"]
    /\ UNCHANGED <<fleet, now>>
    /\ SweepFrame

\* the rest of endSessionAndProcessRewards: session.end() saves ENDED,
\* endTime and a null scheduledEndTime; then calculateWinner sets the
\* winner if a row is active, and awardToken creates the reward, which the
\* transport completes or fails (an error of awardToken is caught).  The
\* steps of this sequence are separate actions in Spec; here they are one,
\* except that the storage can fail after end() has been saved, in which
\* case calculateWinner throws and the sequence stops
SweepEnd ==
    /\ job.pc = "end"
    /\ LET s == Head(job.todo)
           ended == [fleet[s] EXCEPT !.status = "ENDED", !.endTime = now,
                                     !.scheduledEndTime = NoTime]
       IN
       \/ /\ job.faults < MaxFaults
          /\ fleet' = [fleet EXCEPT ![s] = ended]
          /\ job' = [AfterSession(job, s, FALSE) EXCEPT !.faults = @ + 1]
       \/ /\ \E sent \in BOOLEAN :
                fleet' = [fleet EXCEPT ![s] =
                    [ended EXCEPT
                        !.winner = ended.active,
                        !.reward = IF ~ended.active \/ ended.reward # "none"
                                   THEN ended.reward
                                   ELSE IF sent THEN "COMPLETED" ELSE "FAILED"]]
          /\ job' = AfterSession(job, s, TRUE)
    /\ UNCHANGED now
    /\ SweepFrame

\* POST /:sessionId/end by the creator of session s: endSession saves
\* ENDED and does nothing else (its load and its save are taken together
\* here; Spec has them apart)
ClientEnd(s) ==
    /\ ~IsTerminal(fleet[s].status)
    /\ fleet' = [fleet EXCEPT ![s].status = "ENDED", ![s].endTime = now,
                              ![s].scheduledEndTime = NoTime]
    /\ UNCHANGED <<job, now>>
    /\ SweepFrame

\* the auto-end job and the clock
AutoEndNext ==
    \/ Tick
    \/ SweepQuery
    \/ SweepLoad
    \/ SweepEnd

SweepNext ==
    \/ Tick
    \/ SweepQuery
    \/ SweepLoad
    \/ SweepEnd
    \/ \E s \in SessionIds : ClientEnd(s)

SweepSpec == SweepInit /\ [][SweepNext]_vars

\* the job alone, with time advancing, setInterval firing and every
\* started run going on
SweepLive ==
    /\ SweepInit
    /\ [][AutoEndNext]_vars
    /\ WF_vars(Tick)
    /\ WF_vars(SweepQuery)
    /\ WF_vars(SweepLoad)
    /\ WF_vars(SweepEnd)

\* ---------------------------------------------------------------------
\* PlaySpec: updatePlayerScore on a started (or still waiting) session,
\* with joins, leaves and the creator's end interleaved
\* ---------------------------------------------------------------------
\* score / tasksCompleted left out of the request
Absent == -1

\* values a request can carry; -5 stands for the negative numbers
ScoreInputs == {Absent, -5, 10, 20}
TaskInputs == {Absent, -5, 1}

\* score < 0 on a value that is present
IsNegative(x) == x # Absent /\ x < 0

PlayInit ==
    /\ now = 1
    /\ cfg \in {c \in Configs : ~c.autoEnd
                                /\ c.minPlayersToStart = 2 /\ c.maxPlayers = 3}
    /\ ps = [u \in Users |->
                IF u \in {"u1", "u2"}
                THEN [NoRow EXCEPT !.exists = TRUE, !.isActive = TRUE,
                                   !.joinedAt = 0]
                ELSE NoRow]
    /\ \E status \in {IF cfg.autoStart THEN "LIVE" ELSE "WAITING"} :
          /\ session = [status |-> status,
                        players |-> [u \in Users |->
                                        IF u \in {"u1", "u2"} THEN 1 ELSE 0],
                        ver |-> 2, winner |-> NULL,
                        startTime |-> IF status = "LIVE" THEN 0 ELSE NoTime,
                        endTime |-> NoTime, scheduledEndTime |-> NoTime]
          /\ hist = [endWrites |-> 0,
                     startWrites |-> IF status = "LIVE" THEN 1 ELSE 0,
                     endedWithActive |-> FALSE, activeAtEnd |-> {}]
    /\ rewards = <<>>
    /\ users = [u \in Users |-> IF ps[u].exists THEN JoinedOnce ELSE NoTotals]
    /\ loc = [p \in Procs |-> IdleLoc]
    /\ last = NoResult
    /\ ops = 0
    /\ fleet = NoFleet
    /\ job = IdleJob
    /\ net = NoNet

\* updatePlayerScore: the check on the loaded session
ScoreAllowed(status) == status = "LIVE"

\* findSessionById and the LIVE check; the request carries at least one
\* of score and tasksCompleted
ScoreLoad(p, u, score, tasks) ==
    /\ Free(p)
    /\ ops < MaxOps
    /\ score # Absent \/ tasks # Absent
    /\ ops' = ops + 1
    /\ IF ScoreAllowed(session.status)
       THEN Continue(p, [Begin("score", u, "u_find") EXCEPT
                            !.status = session.status,
                            !.score = score, !.tasks = tasks])
       ELSE Return(p, "score", u, "ValidationError")
    /\ UNCHANGED <<sweep, net, now, cfg, users, session, ps, rewards, hist>>

\* PlayerSession.findOne({sessionId, userId, isActive: true}); a value
\* left out of the request, or equal to the one loaded, is no modification
\* of the loaded document
ScoreFindPS(p) ==
    /\ loc[p].pc = "u_find"
    /\ LET u == loc[p].user IN
       IF ~(ps[u].exists /\ ps[u].isActive)
       THEN Finish(p, "NotFoundError")
       ELSE Continue(p, [loc[p] EXCEPT
                !.pc = "u_save",
                !.data = IF loc[p].score = Absent THEN ps[u].score
                         ELSE loc[p].score,
                !.score = IF @ = ps[u].score THEN Absent ELSE @,
                !.tasks = IF @ = ps[u].tasksCompleted THEN Absent ELSE @])
    /\ UNCHANGED <<sweep, net, now, cfg, users, session, ps, rewards, ops, hist>>

\* playerSession.updatePerformance(score, tasks): throws on a negative
\* value, else save() writes the modified paths of the row; the
\* UPDATE_SCORE handler goes on (seq: the place of its save among the
\* saves made for update_score messages), a REST call returns
updatePerformance(p) ==
    /\ loc[p].pc = "u_save"
    /\ IF IsNegative(loc[p].score) \/ IsNegative(loc[p].tasks)
       THEN /\ Finish(p, "Error")
            /\ UNCHANGED <<ps, net>>
       ELSE /\ ps' = [ps EXCEPT
                        ![loc[p].user].score =
                            IF loc[p].score = Absent THEN @ ELSE loc[p].score,
                        ![loc[p].user].tasksCompleted =
                            IF loc[p].tasks = Absent THEN @ ELSE loc[p].tasks]
            /\ IF loc[p].via = "socket"
               THEN /\ net' = [net EXCEPT !.scoreCommits =
                                   Append(@, [userId |-> loc[p].user,
                                              score |-> loc[p].data])]
                    /\ Continue(p, [loc[p] EXCEPT
                                       !.pc = "u_read",
                                       !.seq = Len(net.scoreCommits) + 1])
               ELSE /\ Finish(p, "ok")
                    /\ UNCHANGED net
    /\ UNCHANGED <<sweep, now, cfg, users, session, rewards, ops, hist>>

PlayNext ==
    \/ \E p \in Procs, u \in Users, score \in ScoreInputs, tasks \in TaskInputs :
          ScoreLoad(p, u, score, tasks)
    \/ \E p \in Procs : ScoreFindPS(p)
    \/ \E p \in Procs : updatePerformance(p)
    \/ \E p \in Procs, u \in Users : JoinLoad(p, u)
    \/ \E p \in Procs : JoinFindPS(p)
    \/ \E p \in Procs : JoinSavePS(p)
    \/ \E p \in Procs : JoinAddPlayer(p)
    \/ \E p \in Procs : incrementSessionsJoined(p)
    \/ \E p \in Procs, u \in Users : LeaveLoad(p, u)
    \/ \E p \in Procs : LeaveFindPS(p)
    \/ \E p \in Procs : LeaveSavePS(p)
    \/ \E p \in Procs : LeaveRemovePlayer(p)
    \/ \E p \in Procs, u \in Users : EndLoad(p, u)
    \/ \E p \in Procs : EndSave(p)

PlaySpec == PlayInit /\ [][PlayNext]_vars

\* ---------------------------------------------------------------------
\* EmitSpec: update_score messages on a LIVE session and the score_updated
\* events they lead to
\* ---------------------------------------------------------------------
EmitInit == PlayInit /\ cfg.autoStart

\* UPDATE_SCORE handler: a message with neither score nor tasksCompleted
\* gets an error; else updatePlayerScore (findSessionById, the LIVE check)
SocketScoreLoad(p, u, score, tasks) ==
    /\ Free(p)
    /\ ops < MaxOps
    /\ ops' = ops + 1
    /\ IF score = Absent /\ tasks = Absent
       THEN Return(p, "score", u, "ValidationError")
       ELSE IF ScoreAllowed(session.status)
       THEN Continue(p, [Begin("score", u, "u_find") EXCEPT
                            !.via = "socket",
                            !.status = session.status,
                            !.score = score, !.tasks = tasks])
       ELSE Return(p, "score", u, "ValidationError")
    /\ UNCHANGED <<sweep, net, now, cfg, users, session, ps, rewards, hist>>

\* updatePlayerScore after the save: PlayerSession.findById reads the row
\* again, and its score is the one the event will carry
ScoreReread(p) ==
    /\ loc[p].pc = "u_read"
    /\ Continue(p, [loc[p] EXCEPT !.pc = "u_emit",
                                  !.data = ps[loc[p].user].score])
    /\ UNCHANGED <<sweep, net, now, cfg, users, session, ps, rewards, ops,
                   hist>>

\* PlayerSession.getLeaderboard: the active rows of the session sorted on
\* (score desc, tasksCompleted desc, joinedAt asc), fewer than the limit;
\* ahead: the number of rows sorted before the entry
LeaderboardBefore(a, b) ==
    \/ a.score > b.score
    \/ a.score = b.score /\ a.tasksCompleted > b.tasksCompleted
    \/ a.score = b.score /\ a.tasksCompleted = b.tasksCompleted
          /\ a.joinedAt < b.joinedAt

getLeaderboard(rows) ==
    LET active == {u \in Users : rows[u].exists /\ rows[u].isActive} IN
    {[userId |-> u, score |-> rows[u].score,
      tasksCompleted |-> rows[u].tasksCompleted,
      ahead |-> Cardinality({v \in active :
                               LeaderboardBefore(rows[v], rows[u])})] :
     u \in active}

\* getLeaderboard(sessionId, 10) (findSessionById, which reads nothing the
\* event uses, then the query) and notifyScoreUpdate
ScoreEmit(p) ==
    /\ loc[p].pc = "u_emit"
    /\ net' = [net EXCEPT !.scoreUpdated =
                   Append(@, [seq |-> loc[p].seq, userId |-> loc[p].user,
                              score |-> loc[p].data,
                              leaderboard |-> getLeaderboard(ps)])]
    /\ Finish(p, "ok")
    /\ UNCHANGED <<sweep, now, cfg, users, session, ps, rewards, ops, hist>>

EmitNext ==
    \/ \E p \in Procs, u \in Users, score \in ScoreInputs, tasks \in TaskInputs :
          SocketScoreLoad(p, u, score, tasks)
    \/ \E p \in Procs : ScoreFindPS(p)
    \/ \E p \in Procs : updatePerformance(p)
    \/ \E p \in Procs : ScoreReread(p)
    \/ \E p \in Procs : ScoreEmit(p)

EmitSpec == EmitInit /\ [][EmitNext]_vars

\* ---------------------------------------------------------------------
\* SocketSpec: joins over the socket and over REST, the creator's REST end
\* and the auto-end job, with the events emitted to the session's room
\* ---------------------------------------------------------------------
SocketInit ==
    /\ Init
    /\ cfg.autoStart /\ cfg.autoEnd
    /\ cfg.minPlayersToStart = 1 /\ cfg.maxPlayers = 2

\* socket JOIN_SESSION handler: sessionService.joinSession(...), up to
\* the isJoinable check
SocketJoinLoad(p, u) ==
    /\ Free(p)
    /\ ops < MaxOps
    /\ ops' = ops + 1
    /\ IF isJoinable(session.status, session.players)
       THEN Continue(p, JoinLoaded(u, "socket"))
       ELSE Return(p, "join", u, JoinRefusal)
    /\ UNCHANGED <<sweep, net, now, cfg, users, session, ps, rewards, hist>>

\* the session read by getSession at the end of joinSession, then
\* socket.join(sessionId)
SocketJoinRoom(p) ==
    /\ loc[p].pc = "k_joined"
    /\ net' = [net EXCEPT !.room = @ \cup {loc[p].user},
                          !.userSessions = @ \cup {loc[p].user}]
    /\ Continue(p, [loc[p] EXCEPT !.pc = "k_emit",
                                  !.status = session.status,
                                  !.start = session.startTime])
    /\ UNCHANGED <<sweep, now, cfg, session, ps, rewards, users, ops, hist>>

\* io.to(sessionId).emit: every connection of the room receives the event
broadcastToSession(received, room) ==
    [u \in Users |-> IF u \in room THEN received[u] + 1 ELSE received[u]]

\* io.to(sessionId).except(socketId).emit
broadcastToSessionExcept(received, room, u) ==
    broadcastToSession(received, room \ {u})

notifyPlayerJoined(received, room, u) == broadcastToSession(received, room)

\* after User.findById: session_joined to the joiner, player_joined to
\* the room, and session_started when the session read is LIVE and started
\* less than 5 seconds ago (a clock step is a minute: within the minute
\* of the start the 5 seconds may or may not have passed)
SocketJoinEmit(p) ==
    /\ loc[p].pc = "k_emit"
    /\ LET u == loc[p].user IN
       \E recent \in IF loc[p].status = "LIVE" /\ loc[p].start = now
                     THEN BOOLEAN ELSE {FALSE} :
          net' = [net EXCEPT
                     !.sessionJoined[u] = @ + 1,
                     !.playerJoined = notifyPlayerJoined(@, net.room, u),
                     !.started = IF recent THEN @ + 1 ELSE @]
    /\ Finish(p, loc[p].res)
    /\ UNCHANGED <<sweep, now, cfg, session, ps, rewards, users, ops, hist>>

SocketNext ==
    \/ Tick
    \/ \E p \in Procs, u \in Users : JoinLoad(p, u)
    \/ \E p \in Procs, u \in Users : SocketJoinLoad(p, u)
    \/ \E p \in Procs : JoinFindPS(p)
    \/ \E p \in Procs : JoinSavePS(p)
    \/ \E p \in Procs : JoinAddPlayer(p)
    \/ \E p \in Procs : incrementSessionsJoined(p)
    \/ \E p \in Procs : SocketJoinRoom(p)
    \/ \E p \in Procs : SocketJoinEmit(p)
    \/ \E p \in Procs, u \in Users : EndLoad(p, u)
    \/ \E p \in Procs : EndSave(p)
    \/ \E p \in Procs : AutoEndQuery(p)
    \/ \E p \in Procs : AutoEndLoad(p)
    \/ \E p \in Procs : AutoEndSave(p)
    \/ \E p \in Procs : CalcWinnerLoad(p)
    \/ \E p \in Procs : CalcWinnerSave(p)
    \/ \E p \in Procs : calculateFinalRanks(p)
    \/ \E p \in Procs : AwardCheck(p)
    \/ \E p \in Procs : AwardCreate(p)
    \/ \E p \in Procs : AwardPay(p)
    \/ \E p \in Procs : addTokensEarned(p)
    \/ \E p \in Procs : incrementSessionsWon(p)

SocketSpec == SocketInit /\ [][SocketNext]_vars

\* ---------------------------------------------------------------------
\* LeaveSpec: one participant whose connection has joined the session
\* leaves it explicitly (over the socket or over REST) and loses the
\* connection
\* ---------------------------------------------------------------------
\* membership version of the session of LeaveInit
JoinedVersion == 2

\* u1 and u2 have joined, the one or the other over a socket
LeaveInit ==
    /\ now = 1
    /\ cfg \in {c \in Configs : ~c.autoEnd
                                /\ c.minPlayersToStart = 2 /\ c.maxPlayers = 3}
    /\ ps = [u \in Users |->
                IF u \in {"u1", "u2"}
                THEN [NoRow EXCEPT !.exists = TRUE, !.isActive = TRUE,
                                   !.joinedAt = 0]
                ELSE NoRow]
    /\ \E status \in {IF cfg.autoStart THEN "LIVE" ELSE "WAITING"} :
          /\ session = [status |-> status,
                        players |-> [u \in Users |->
                                        IF u \in {"u1", "u2"} THEN 1 ELSE 0],
                        ver |-> JoinedVersion, winner |-> NULL,
                        startTime |-> IF status = "LIVE" THEN 0 ELSE NoTime,
                        endTime |-> NoTime, scheduledEndTime |-> NoTime]
          /\ hist = [endWrites |-> 0,
                     startWrites |-> IF status = "LIVE" THEN 1 ELSE 0,
                     endedWithActive |-> FALSE, activeAtEnd |-> {}]
    /\ rewards = <<>>
    /\ users = [u \in Users |-> IF ps[u].exists THEN JoinedOnce ELSE NoTotals]
    /\ loc = [p \in Procs |-> IdleLoc]
    /\ last = NoResult
    /\ ops = 0
    /\ fleet = NoFleet
    /\ job = IdleJob
    /\ \E u \in {"u1", "u2"} :
          net = [NoNet EXCEPT !.room = {u}, !.userSessions = {u}]

\* the document leaveSession loads
LeaveLoaded(u, via) ==
    [Begin("leave", u, "l_find") EXCEPT
        !.via = via,
        !.status = session.status,
        !.players = session.players, !.ver = session.ver]

\* POST /:sessionId/leave by the user of the connection
ClientLeave(p, u) ==
    /\ u \in net.userSessions
    /\ LeaveLoad(p, u)

\* socket LEAVE_SESSION handler: sessionService.leaveSession(...)
SocketLeaveLoad(p, u) ==
    /\ Free(p)
    /\ ops < MaxOps
    /\ u \in net.userSessions \ net.closed
    /\ ops' = ops + 1
    /\ Continue(p, LeaveLoaded(u, "socket"))
    /\ UNCHANGED <<sweep, net, now, cfg, users, session, ps, rewards, hist>>

\* socket 'disconnect' handler: the connection is out of its rooms, and
\* leaveSession is called if the session is in userSessions
Disconnect(p, u) ==
    /\ Free(p)
    /\ ops < MaxOps
    /\ u \in (net.room \cup net.userSessions) \ net.closed
    /\ ops' = ops + 1
    /\ net' = [net EXCEPT !.closed = @ \cup {u}, !.room = @ \ {u}]
    /\ IF u \in net.userSessions
       THEN Continue(p, LeaveLoaded(u, "disconnect"))
       ELSE Return(p, "leave", u, "none")
    /\ UNCHANGED <<sweep, now, cfg, users, session, ps, rewards, hist>>

\* after getSession and User.findById: session_left to the connection
\* (socket handler) and notifyPlayerLeft to the room
LeaveEmit(p) ==
    /\ loc[p].pc = "k_left"
    /\ net' = [net EXCEPT !.playerLeft[loc[p].user] = @ + 1]
    /\ Finish(p, "ok")
    /\ UNCHANGED <<sweep, now, cfg, users, session, ps, rewards, ops, hist>>

LeaveNext ==
    \/ \E p \in Procs, u \in Users : ClientLeave(p, u)
    \/ \E p \in Procs, u \in Users : SocketLeaveLoad(p, u)
    \/ \E p \in Procs, u \in Users : Disconnect(p, u)
    \/ \E p \in Procs : LeaveFindPS(p)
    \/ \E p \in Procs : LeaveSavePS(p)
    \/ \E p \in Procs : LeaveRemovePlayer(p)
    \/ \E p \in Procs : LeaveEmit(p)

LeaveSpec == LeaveInit /\ [][LeaveNext]_vars

\* ---------------------------------------------------------------------
\* DropSpec: one user's connection over several sessions, and the cleanup
\* of the 'disconnect' handler
\* ---------------------------------------------------------------------
\* a session as seen from the user: member of session.players, active
\* PlayerSession, session in the connection's userSessions (joined over
\* the socket and not left over it), player_left events emitted about the
\* user; a join or a leave over REST leaves userSessions as it is
DropRows ==
    {r \in [member : BOOLEAN, active : BOOLEAN, joined : BOOLEAN, left : {0}] :
        r.member <=> r.active}

DropInit ==
    /\ now = 1
    /\ cfg \in {c \in Configs : c.autoStart /\ c.autoEnd
                                /\ c.minPlayersToStart = 1 /\ c.maxPlayers = 2}
    /\ session = [status |-> "WAITING", players |-> NoPlayers, ver |-> 0,
                  winner |-> NULL, startTime |-> NoTime, endTime |-> NoTime,
                  scheduledEndTime |-> NoTime]
    /\ ps = [u \in Users |-> NoRow]
    /\ rewards = <<>>
    /\ users = [u \in Users |-> NoTotals]
    /\ loc = [p \in Procs |-> IdleLoc]
    /\ last = NoResult
    /\ ops = 0
    /\ hist = [endWrites |-> 0, startWrites |-> 0, endedWithActive |-> FALSE,
               activeAtEnd |-> {}]
    /\ fleet \in [SessionIds -> DropRows]
    /\ job = IdleJob
    /\ net = NoNet

DropFrame ==
    UNCHANGED <<now, net, cfg, session, ps, rewards, users, loc, last, ops,
                hist>>

\* the cleanup gives up at the first session whose leave fails
AfterLeaveAbort(j, s, ok) ==
    [j EXCEPT !.pc = IF ok /\ Len(j.todo) > 1 THEN "leave" ELSE "done",
              !.todo = IF ok THEN Tail(@) ELSE <<>>,
              !.log = Append(@, [s |-> s, ok |-> ok])]

\* the for loop of the disconnect handler after the session at its head:
\* the try/catch inside the loop swallows the error of a leave that failed
AfterLeave(j, s, ok) ==
    [j EXCEPT !.pc = IF Len(j.todo) > 1 THEN "leave" ELSE "done",
              !.todo = Tail(@),
              !.log = Append(@, [s |-> s, ok |-> ok])]

\* userSessions.clear() once the loop is over
AfterLoop(f, j) ==
    IF j.pc = "done" THEN [s \in SessionIds |-> [f[s] EXCEPT !.joined = FALSE]]
    ELSE f

\* POST /:sessionId/leave by the user, at any time: leaveSession
DropClientLeave(s) ==
    /\ fleet[s].active
    /\ fleet' = [fleet EXCEPT ![s].active = FALSE, ![s].member = FALSE]
    /\ UNCHANGED job
    /\ DropFrame

\* leave_session over the connection: leaveSession, socket.leave,
\* userSessions.delete, player_left
DropSocketLeave(s) ==
    /\ job.pc = "idle"
    /\ fleet[s].active
    /\ fleet' = [fleet EXCEPT ![s].active = FALSE, ![s].member = FALSE,
                              ![s].joined = FALSE, ![s].left = @ + 1]
    /\ UNCHANGED job
    /\ DropFrame

\* 'disconnect': the loop over userSessions starts (a Set iterates in
\* insertion order, which is any order here)
ConnectionLost ==
    /\ job.pc = "idle"
    /\ LET mine == {s \in SessionIds : fleet[s].joined} IN
       \E f \in Listings(mine) :
           job' = [job EXCEPT !.pc = IF mine = {} THEN "done" ELSE "leave",
                              !.todo = f, !.seen = f, !.log = <<>>]
    /\ UNCHANGED fleet
    /\ DropFrame

\* leaveSession for the session at the head of the loop: it throws when
\* the storage fails, when the row is not active any more, or (after the
\* row was saved inactive) when removePlayer meets a newer version of the
\* session; else the row is inactive and the user out of the list
DropLeave ==
    /\ job.pc = "leave"
    /\ LET s == Head(job.todo) IN
       \/ /\ job.faults < MaxFaults
          /\ job' = [AfterLeave(job, s, FALSE) EXCEPT !.faults = @ + 1]
          /\ fleet' = AfterLoop(fleet, job')
       \/ /\ job.faults < MaxFaults
          /\ fleet[s].active
          /\ job' = [AfterLeave(job, s, FALSE) EXCEPT !.faults = @ + 1]
          /\ fleet' = AfterLoop([fleet EXCEPT ![s].active = FALSE], job')
       \/ /\ ~fleet[s].active
          /\ job' = AfterLeave(job, s, FALSE)
          /\ fleet' = AfterLoop(fleet, job')
       \/ /\ fleet[s].active
          /\ job' = [job EXCEPT !.pc = "emit"]
          /\ fleet' = [fleet EXCEPT ![s].active = FALSE, ![s].member = FALSE]
    /\ DropFrame

\* getSession, User.findById, notifyPlayerLeft
DropEmit ==
    /\ job.pc = "emit"
    /\ LET s == Head(job.todo) IN
       /\ job' = AfterLeave(job, s, TRUE)
       /\ fleet' = AfterLoop([fleet EXCEPT ![s].left = @ + 1], job')
    /\ DropFrame

DropNext ==
    \/ \E s \in SessionIds : DropClientLeave(s)
    \/ \E s \in SessionIds : DropSocketLeave(s)
    \/ ConnectionLost
    \/ DropLeave
    \/ DropEmit

DropSpec == DropInit /\ [][DropNext]_vars

\* ---------------------------------------------------------------------
\* Properties
\* ---------------------------------------------------------------------
AllFree == \A p \in Procs : Free(p)

\* C1: at most one RewardRecord exists for the session in every reachable
\* state, whatever the number and interleaving of end invocations.
C1_AtMostOneReward == Len(rewards) <= 1

\* C2: once the session's status is ENDED or CANCELLED it never changes
\* again.
C2_TerminalIsFinal ==
    [][IsTerminal(session.status) => session'.status = session.status]_vars

\* C3: whenever the session has been ended (by the creator through the
\* public end operation or by the auto-end job) and had an active
\* participant at that time, its winner is set and a RewardRecord exists.
C3_EndComputesWinnerAndReward ==
    (session.status = "ENDED" /\ hist.endedWithActive /\ AllFree)
        => (session.winner # NULL /\ Len(rewards) >= 1)

\* C4: of two end invocations running on the same LIVE session exactly one
\* performs the ENDED transition: an end that loaded the session LIVE writes
\* ENDED only if the stored session is still LIVE.
C4_OneEndTransition ==
    [][\A p \in Procs :
          (/\ loc[p].pc \in {"e_save", "r_end"}
           /\ loc[p].status = "LIVE"
           /\ loc'[p] # loc[p]
           /\ hist'.endWrites # hist.endWrites)
          => session.status = "LIVE"]_vars

\* C5: the membership count of the session never exceeds maxPlayers.
C5_CapacityRespected == playerCount(session.players) <= cfg.maxPlayers

\* C6: with autoStart enabled the WAITING to LIVE transition happens at the
\* join at which the membership count reaches minPlayersToStart: no
\* quiescent WAITING session has reached it.
C6_AutoStartAtThreshold ==
    (cfg.autoStart /\ session.status = "WAITING" /\ AllFree)
        => playerCount(session.players) < cfg.minPlayersToStart

\* C7: when a join triggers auto-start the resulting state is LIVE with
\* startTime set, and scheduledEndTime is startTime plus the duration if
\* autoEnd is enabled and unset if it is disabled.
C7_AutoStartStamps ==
    [][hist'.startWrites # hist.startWrites =>
          /\ session'.status = "LIVE"
          /\ session'.startTime # NoTime
          /\ session'.startTime = now
          /\ cfg.autoEnd =>
                session'.scheduledEndTime = session'.startTime + cfg.durationMinutes
          /\ ~cfg.autoEnd => session'.scheduledEndTime = NoTime]_vars

\* Scenario A: minPlayersToStart=2, maxPlayers=3, autoStart, two joins
C7_ScenarioA ==
    /\ cfg.minPlayersToStart = 2 /\ cfg.maxPlayers = 3
    /\ cfg.autoStart /\ cfg.autoEnd
    /\ hist.startWrites = 1
    /\ playerCount(session.players) = 2
    /\ session.status = "LIVE"
    /\ session.scheduledEndTime = session.startTime + cfg.durationMinutes

\* C8: the session never goes from WAITING to LIVE while its stored
\* membership count is below minPlayersToStart.
C8_StartsWithMinimum ==
    [][(session.status = "WAITING" /\ session'.status = "LIVE")
          => playerCount(session'.players) >= cfg.minPlayersToStart]_vars

\* C9: an end request by a user who is not the creator fails with
\* AuthorizationError and changes neither the session nor the rewards; the
\* ENDED transition is only ever written by an end acting for the creator.
C9_OnlyCreatorEnds ==
    [][/\ \A p \in Procs, u \in Users :
             (EndLoad(p, u) /\ u # cfg.creatorId)
             => /\ last' = [op |-> "end", user |-> u,
                             res |-> "AuthorizationError"]
                /\ UNCHANGED <<session, rewards, ps, loc>>
       /\ hist'.endWrites # hist.endWrites
             => \E p \in Procs :
                   /\ loc'[p] # loc[p]
                   /\ loc[p].op \in {"end", "autoEnd"}
                   /\ loc[p].user = cfg.creatorId]_vars

\* a non-creator's end request on a LIVE session has been refused
C9_RefusedEnd ==
    /\ last.op = "end"
    /\ last.user # cfg.creatorId
    /\ last.res = "AuthorizationError"
    /\ session.status = "LIVE"
    /\ AllFree

\* C10: when the transport fails while the session is being ended, the
\* session stays ENDED with its winner recorded and exactly one
\* RewardRecord exists for it, FAILED and retryable.
C10_FailedRewardKeepsEnd ==
    [][\A p \in Procs :
          (/\ loc[p].pc = "r_pay"
           /\ loc'[p].pc = "idle"
           /\ last'.res = "TransportError")
          => /\ session'.status = "ENDED"
             /\ session'.winner # NULL
             /\ Len(rewards') = 1
             /\ rewards'[1].status = "FAILED"
             /\ canRetry(rewards'[1])]_vars

\* ---------------------------------------------------------------------
\* Properties of the scoring engine (ScoreSpec)
\* ---------------------------------------------------------------------
\* a is no later than b when key tuples are compared entry by entry, each
\* entry descending
RECURSIVE KeysNotAfter(_, _)
KeysNotAfter(a, b) ==
    IF a = <<>> THEN TRUE
    ELSE IF Head(a) # Head(b) THEN Head(a) > Head(b)
    ELSE KeysNotAfter(Tail(a), Tail(b))

PointsKey(u) == <<ps[u].score, ps[u].tasksCompleted, 0 - ps[u].joinedAt>>

TasksKey(u) == <<ps[u].tasksCompleted, ps[u].score, 0 - ps[u].joinedAt>>

CombinedKey(u) ==
    <<ps[u].score + ps[u].tasksCompleted * cfg.pointsPerTask,
      ps[u].score, ps[u].tasksCompleted, 0 - ps[u].joinedAt>>

\* a call of calculateWinner has returned a winner
Returned == AllFree /\ last.op = "calculateWinner" /\ last.res = "winner"

\* ... and the winner is the one the strategy selects
Decided(strategy) ==
    Returned /\ cfg.scoringType = strategy /\ ~cfg.enableRandomWinner

\* C11: with the POINTS strategy the winner is the active participant first
\* under score descending, tasksCompleted descending, joinedAt ascending;
\* with the TASKS strategy the first under tasksCompleted descending, score
\* descending, joinedAt ascending (the strategy selects the winner when the
\* random override is off).
C11_PointsAndTasksWinner ==
    /\ Decided("POINTS") =>
          /\ session.winner \in ActivePlayers
          /\ \A v \in ActivePlayers :
                KeysNotAfter(PointsKey(session.winner), PointsKey(v))
    /\ Decided("TASKS") =>
          /\ session.winner \in ActivePlayers
          /\ \A v \in ActivePlayers :
                KeysNotAfter(TasksKey(session.winner), TasksKey(v))

\* a TASKS winner who has a lower score than another active participant
C11_TasksWinnerOutscored ==
    /\ Decided("TASKS")
    /\ \E v \in ActivePlayers : ps[v].score > ps[session.winner].score

\* C12: with the COMBINED strategy the winner is the active participant
\* first under weighted = score + tasksCompleted * pointsPerTask descending,
\* then score descending, tasksCompleted descending, joinedAt ascending.
C12_CombinedWinner ==
    Decided("COMBINED") =>
        /\ session.winner \in ActivePlayers
        /\ \A v \in ActivePlayers :
              KeysNotAfter(CombinedKey(session.winner), CombinedKey(v))

\* a COMBINED winner who has a lower score than another active participant
C12_CombinedWinnerOutscored ==
    /\ Decided("COMBINED")
    /\ \E v \in ActivePlayers : ps[v].score > ps[session.winner].score

\* Scenario B: COMBINED, pointsPerTask=10, x has score 50 and 2 tasks, y has
\* score 60 and 1 task, x joined earlier, nobody else is active
ScenarioB(x, y) ==
    /\ Decided("COMBINED")
    /\ cfg.pointsPerTask = 10
    /\ ActivePlayers = {x, y}
    /\ ps[x].score = 50 /\ ps[x].tasksCompleted = 2
    /\ ps[y].score = 60 /\ ps[y].tasksCompleted = 1
    /\ ps[x].joinedAt < ps[y].joinedAt

\* C13 as stated: in Scenario B the winner is X, the earlier joiner.
C13_ScenarioBWinnerIsX ==
    \A x, y \in Users : ScenarioB(x, y) => session.winner = x

\* C13 amended: in Scenario B the winner is Y: the weighted scores are equal
\* (70) and the next key is score descending, which Y (60) wins before
\* joinedAt is looked at.
C13_ScenarioBWinnerIsY ==
    \A x, y \in Users : ScenarioB(x, y) => session.winner = y

C13_ScenarioBReached == \E x, y \in Users : ScenarioB(x, y)

\* a and b are active with equal score and equal tasksCompleted, a joined
\* earlier, and every other active participant sorts after a under the
\* strategy's keys
TiedPair(a, b, strategy) ==
    /\ a \in ActivePlayers /\ b \in ActivePlayers
    /\ ps[a].score = ps[b].score
    /\ ps[a].tasksCompleted = ps[b].tasksCompleted
    /\ ps[a].joinedAt < ps[b].joinedAt
    /\ \A c \in ActivePlayers \ {a, b} :
          CASE strategy = "POINTS" ->
                 PointsKey(c) # PointsKey(a)
                 /\ KeysNotAfter(PointsKey(a), PointsKey(c))
            [] strategy = "TASKS" ->
                 TasksKey(c) # TasksKey(a)
                 /\ KeysNotAfter(TasksKey(a), TasksKey(c))
            [] OTHER ->
                 CombinedKey(c) # CombinedKey(a)
                 /\ KeysNotAfter(CombinedKey(a), CombinedKey(c))

\* C14: for POINTS, TASKS and COMBINED, of two active participants with
\* equal score and equal tasksCompleted whom no other participant ranks
\* above, the one who joined earlier is the winner and has the better
\* (smaller) finalRank.
C14_EarlierJoinerWinsTie ==
    \A strategy \in {"POINTS", "TASKS", "COMBINED"} :
        Decided(strategy) =>
            \A a, b \in Users :
                TiedPair(a, b, strategy) =>
                    /\ session.winner = a
                    /\ ps[a].finalRank > 0
                    /\ ps[a].finalRank < ps[b].finalRank

\* a tied pair in a TASKS session with a third participant ranked ahead of
\* both by calculateRanks
C14_TiedPairBehindThird ==
    /\ Decided("TASKS")
    /\ \E a, b \in Users :
          /\ TiedPair(a, b, "TASKS")
          /\ session.winner = a
          /\ ps[a].finalRank = 2
          /\ ps[b].finalRank = 3

\* the finalRanks are those of some result of calculateRanks' query
RanksAsComputed ==
    \E f \in calculateRanks :
        \A u \in Users : ps[u].exists => ps[u].finalRank = RankIn(f, u)

StrategyKey(u) ==
    CASE cfg.scoringType = "TASKS" -> TasksKey(u)
      [] cfg.scoringType = "COMBINED" -> CombinedKey(u)
      [] OTHER -> PointsKey(u)

\* C16: after winner selection every active participant has a finalRank,
\* the finalRanks are exactly 1..n, their order is the order of the
\* session's strategy (POINTS, TASKS or COMBINED), and without random
\* override the winner has finalRank 1 (or is a row with the same score,
\* tasksCompleted and joinedAt as the one that has it).
C16_RanksFollowStrategy ==
    Returned =>
        /\ \A u \in ActivePlayers : ps[u].finalRank > 0
        /\ {ps[u].finalRank : u \in ActivePlayers}
              = 1..Cardinality(ActivePlayers)
        /\ cfg.scoringType \in {"POINTS", "TASKS", "COMBINED"} =>
              \A a, b \in ActivePlayers :
                  ps[a].finalRank < ps[b].finalRank =>
                      KeysNotAfter(StrategyKey(a), StrategyKey(b))
        /\ (cfg.scoringType \in {"POINTS", "TASKS", "COMBINED"}
            /\ ~cfg.enableRandomWinner) =>
              \E v \in ActivePlayers :
                  /\ ps[v].finalRank = 1
                  /\ (v = session.winner \/ PointsKey(v) = PointsKey(session.winner))

\* ---------------------------------------------------------------------
\* Properties of the end sequence and the reward record
\* ---------------------------------------------------------------------
NoActiveRow == \A u \in Users : ~(ps[u].exists /\ ps[u].isActive)

\* C17: ending a session that has no active participant is not an error:
\* the end saves ENDED, and the winner computation that finds no active row
\* returns "no winner" with the session still ENDED, the winner as it was,
\* no RewardRecord created and no transport call (the handler is done).
C17_EndWithoutParticipants ==
    [][\A p \in Procs :
          /\ (/\ loc[p].pc \in {"e_save", "r_end"}
              /\ loc'[p] # loc[p]
              /\ ~IsTerminal(loc[p].status)
              /\ NoActiveRow)
             => session'.status = "ENDED"
          /\ (/\ loc[p].pc = "r_cw"
              /\ loc'[p] # loc[p]
              /\ session.status = "ENDED"
              /\ NoActiveRow)
             => /\ loc'[p].pc = "idle"
                /\ last' = [op |-> loc[p].op, user |-> loc[p].user,
                            res |-> "noWinner"]
                /\ session' = session
                /\ rewards' = rewards
                /\ users' = users]_vars

\* an auto-end of a session whose only participant had left
C17_EndedEmpty ==
    /\ AllFree
    /\ last.op = "autoEnd" /\ last.res = "noWinner"
    /\ session.status = "ENDED" /\ session.winner = NULL
    /\ rewards = <<>>
    /\ NoActiveRow
    /\ \E u \in Users : ps[u].exists

\* C18: winner computation fails without changes on a session that is not
\* ENDED, and only participants active at end time are ever the winner or
\* given a finalRank.
C18_OnlyActiveAtEnd ==
    [][/\ \A p \in Procs :
             (/\ loc[p].pc = "r_cw"
              /\ loc'[p] # loc[p]
              /\ session.status # "ENDED")
             => /\ loc'[p].pc = "idle"
                /\ last'.res = "ValidationError"
                /\ UNCHANGED <<session, ps, rewards, users>>
       /\ \A u \in Users :
             (hist'.endWrites > 0 /\ u \notin hist'.activeAtEnd)
             => /\ session'.winner # u
                /\ ps'[u].finalRank = 0]_vars

\* C19: awardToken creates the record PENDING; on transport success the
\* record becomes COMPLETED with the transaction reference and the winner's
\* totalTokensEarned grows by exactly tokenAmount; on transport failure the
\* record becomes FAILED with an errorMessage, retryCount grows by one and
\* the total is unchanged.
C19_AwardOutcome ==
    [][\A p \in Procs :
          LET rid == loc[p].rid IN
          /\ (loc[p].pc = "r_create" /\ loc'[p] # loc[p])
             => /\ Len(rewards') = Len(rewards) + 1
                /\ rewards'[Len(rewards')].status = "PENDING"
          /\ (loc[p].pc = "r_pay" /\ loc'[p].pc = "r_tokens")
             => /\ rewards'[rid].status = "COMPLETED"
                /\ rewards'[rid].hasTx
          /\ (loc[p].op = "autoEnd" /\ loc[p].pc = "r_tokens" /\ loc'[p] # loc[p])
             => users'[rewards[rid].userId].totalTokensEarned
                  = users[rewards[rid].userId].totalTokensEarned
                    + rewards[rid].tokenAmount
          /\ (loc[p].pc = "r_pay" /\ loc'[p].pc = "idle")
             => /\ rewards'[rid].status = "FAILED"
                /\ rewards'[rid].hasError
                /\ rewards'[rid].retryCount = rewards[rid].retryCount + 1
                /\ users' = users]_vars

\* C20: a retry goes ahead only on a RewardRecord that is FAILED with
\* retryCount below 5: on any other record it fails without changing the
\* record and without a transport call, the record a retry resets to
\* PENDING and pays is FAILED with retryCount below 5, and retryCount never
\* exceeds 5.
C20_RetryOnlyFailedBelowBound ==
    [][/\ \A p \in Procs, i \in 1..Len(rewards) :
             (RetryLoad(p, i)
              /\ ~(rewards[i].status = "FAILED" /\ rewards[i].retryCount < 5))
             => /\ last' = [op |-> "retry", user |-> rewards[i].userId,
                             res |-> "ValidationError"]
                /\ UNCHANGED <<rewards, users, loc>>
       /\ \A p \in Procs :
             (loc[p].pc = "t_reset" /\ loc'[p] # loc[p])
             => /\ rewards[loc[p].rid].status = "FAILED"
                /\ rewards[loc[p].rid].retryCount < 5
       /\ \A i \in 1..Len(rewards') : rewards'[i].retryCount <= 5]_vars

\* C21: a RewardRecord's status changes only from PENDING to COMPLETED,
\* from PENDING to FAILED, and from FAILED to PENDING by the reset of a
\* retry; a COMPLETED record never changes status again, and no record is
\* paid out more than once.
C21_RewardStatusOneWay ==
    [][\A i \in 1..Len(rewards) :
          /\ rewards'[i].status # rewards[i].status =>
                \/ /\ rewards[i].status = "PENDING"
                   /\ rewards'[i].status \in {"COMPLETED", "FAILED"}
                \/ /\ rewards[i].status = "FAILED"
                   /\ rewards'[i].status = "PENDING"
                   /\ \E p \in Procs : loc[p].pc = "t_reset" /\ loc'[p] # loc[p]
          /\ rewards'[i].paid <= 1]_vars

\* ---------------------------------------------------------------------
\* Properties of the auto-end job (SweepSpec, SweepLive)
\* ---------------------------------------------------------------------
\* the sessions in the sequence f
Members(f) == {f[i] : i \in 1..Len(f)}

\* C22: a run of the auto-end job finds exactly the sessions that are LIVE
\* with a scheduledEndTime that has passed, ends the sessions it processes,
\* and changes no session it did not find: a LIVE session not yet due, a
\* LIVE session without scheduledEndTime and every WAITING or terminal
\* session are left as they were.
C22_SweepEndsOnlyDue ==
    [][job' # job =>
          /\ job.pc = "idle" =>
                Members(job'.seen) =
                    {s \in SessionIds :
                        /\ fleet[s].status = "LIVE"
                        /\ fleet[s].scheduledEndTime # NoTime
                        /\ fleet[s].scheduledEndTime <= now}
          /\ \A s \in SessionIds :
                fleet'[s] # fleet[s] =>
                    /\ s \in Members(job.seen)
                    /\ fleet'[s].status = "ENDED"
          /\ \A i \in 1..Len(job'.log) :
                job'.log[i].ok => fleet'[job'.log[i].s].status = "ENDED"]_vars

\* Scenario D: a run has found and ended one session, with a winner, and a
\* LIVE session that is not yet due is still LIVE
C22_ScenarioD ==
    /\ job.pc = "idle"
    /\ job.log = <<[s |-> "s1", ok |-> TRUE]>>
    /\ fleet["s1"].status = "ENDED" /\ fleet["s1"].winner
    /\ fleet["s2"].status = "LIVE" /\ fleet["s2"].scheduledEndTime > now
    /\ fleet["s3"].status = "LIVE" /\ fleet["s3"].scheduledEndTime = NoTime

\* C23: when a run of the auto-end job returns, every session its query
\* found has been processed, in spite of the sessions that failed before
\* it, and those that did not fail are ENDED; the run itself always
\* returns to idle or goes on.
C23_FailureDoesNotAbortSweep ==
    /\ job.pc \in {"idle", "load", "end"}
    /\ job.pc = "idle" =>
          /\ Len(job.log) = Len(job.seen)
          /\ \A i \in 1..Len(job.seen) :
                /\ job.log[i].s = job.seen[i]
                /\ job.log[i].ok => fleet[job.seen[i]].status = "ENDED"

\* a run in which a session failed and a later one was ended
C23_EndedAfterFailure ==
    /\ job.pc = "idle"
    /\ \E i, j \in 1..Len(job.log) :
          /\ i < j
          /\ ~job.log[i].ok
          /\ job.log[j].ok
          /\ fleet[job.log[j].s].status = "ENDED"

\* C24: every LIVE session with a scheduled end eventually is ENDED, with
\* its winner set and a reward record if it has an active participant,
\* when time advances and the job keeps running (a failed attempt being
\* made up for by a later run).
C24_AutoEndEventually ==
    \A s \in SessionIds :
        (fleet[s].status = "LIVE" /\ fleet[s].scheduledEndTime # NoTime)
            ~> (/\ fleet[s].status = "ENDED"
                /\ fleet[s].active =>
                      (fleet[s].winner /\ fleet[s].reward # "none"))

\* ---------------------------------------------------------------------
\* Properties of leave, join and score update
\* ---------------------------------------------------------------------
\* handler p takes a step of the operation op
Steps(p, op) == loc[p].op = op /\ loc'[p] # loc[p]

\* C25: a leave by a participant with an active row marks the row inactive
\* and stamps leftAt, then takes the participant (a member when the leave
\* loaded the session) out of the membership list;
\* no step of a leave changes the session's status, times or winner, another
\* participant's row or membership, or a reward (so a LIVE session stays
\* LIVE whatever its membership drops to); a leave by a participant without
\* an active row fails and changes nothing.
C25_LeaveEffect ==
    [][\A p \in Procs :
          LET u == loc[p].user IN
          /\ Steps(p, "leave") =>
                /\ session'.status = session.status
                /\ session'.winner = session.winner
                /\ session'.startTime = session.startTime
                /\ session'.endTime = session.endTime
                /\ session'.scheduledEndTime = session.scheduledEndTime
                /\ \A v \in Users \ {u} :
                      ps'[v] = ps[v] /\ session'.players[v] = session.players[v]
                /\ UNCHANGED <<rewards, users>>
          /\ (Steps(p, "leave") /\ loc[p].pc = "l_find"
              /\ ~(ps[u].exists /\ ps[u].isActive)) =>
                /\ loc'[p].pc = "idle"
                /\ last'.res \in {"NotFoundError", "ValidationError"}
                /\ UNCHANGED <<session, ps>>
          /\ (Steps(p, "leave") /\ loc[p].pc = "l_ps") =>
                /\ ~ps'[u].isActive
                /\ ps'[u].leftAt # NoTime
          /\ (Steps(p, "leave") /\ loc[p].pc = "l_rm"
              /\ loc[p].players[u] > 0) =>
                session'.players[u] = 0]_vars

\* C26: a join that finds the session ENDED or CANCELLED, or LIVE and at
\* capacity, or finds an active ParticipantSession of the caller, fails
\* with a conflict error and changes neither the session (membership,
\* status), nor any ParticipantSession, nor the sessions-joined count
C26_JoinConflictChangesNothing ==
    [][\A p \in Procs :
          /\ (Free(p) /\ ops' # ops
              /\ (IsTerminal(session.status)
                  \/ (session.status = "LIVE" /\ isFull(session.players)))) =>
                /\ loc'[p].op # "join"
                /\ (loc' = loc /\ last'.op = "join") =>
                      /\ last'.res = "ConflictError"
                      /\ UNCHANGED <<session, ps, users, rewards>>
          /\ (Steps(p, "join") /\ loc[p].pc = "j_find"
              /\ ps[loc[p].user].exists /\ ps[loc[p].user].isActive) =>
                /\ loc'[p].pc = "idle"
                /\ last' = [op |-> "join", user |-> loc[p].user,
                            res |-> "ConflictError"]
                /\ UNCHANGED <<session, ps, users, rewards>>]_vars

\* a join has just been refused on a LIVE session at capacity
C26_RefusedWhenFull ==
    /\ last.op = "join"
    /\ last.res = "ConflictError"
    /\ session.status = "LIVE"
    /\ isFull(session.players)
    /\ ~(ps[last.user].exists /\ ps[last.user].isActive)

\* C28: a leave that finds the session ENDED or CANCELLED changes neither
\* its membership list nor the isActive flag of any ParticipantSession,
\* so the final leaderboard of the ended session stays as it was
C28_EndedSessionImmutable ==
    [][\A p \in Procs :
          (Steps(p, "leave") /\ IsTerminal(loc[p].status)) =>
              /\ session'.players = session.players
              /\ \A u \in Users : ps'[u].isActive = ps[u].isActive
              /\ getFinalLeaderboard(ps') = getFinalLeaderboard(ps)]_vars

\* C27: a score update is refused with nothing changed unless the session
\* is LIVE and the caller has an active ParticipantSession, and no
\* participant's score or tasksCompleted changes once the session is ENDED
C27_ScoreOnlyWhileLive ==
    [][/\ \A p \in Procs :
            /\ (Free(p) /\ ops' # ops /\ session.status # "LIVE") =>
                  /\ loc'[p].op # "score"
                  /\ UNCHANGED ps
            /\ (Steps(p, "score") /\ loc[p].pc = "u_find"
                /\ ~(ps[loc[p].user].exists /\ ps[loc[p].user].isActive)) =>
                  /\ loc'[p].pc = "idle"
                  /\ last'.res = "NotFoundError"
                  /\ UNCHANGED ps
       /\ session.status = "ENDED" =>
            \A u \in Users :
                /\ ps'[u].score = ps[u].score
                /\ ps'[u].tasksCompleted = ps[u].tasksCompleted]_vars

\* C29: when a socket join emits its events the joiner is in the room,
\* the joiner (and nobody else) receives session_joined, and player_joined
\* goes to every other connection of the room and not to the joiner
C29_JoinNotifiesTheOthers ==
    [][\A p \in Procs :
          (Steps(p, "join") /\ loc[p].pc = "k_emit") =>
              LET u == loc[p].user IN
              /\ u \in net'.room
              /\ net'.sessionJoined =
                    [net.sessionJoined EXCEPT ![u] = @ + 1]
              /\ net'.playerJoined =
                    broadcastToSessionExcept(net.playerJoined, net.room, u)]_vars

\* events a session's transitions call for: one per write of LIVE, one
\* per write of ENDED, one per reward completed
RewardsCompleted ==
    Cardinality({i \in DOMAIN rewards : rewards[i].status = "COMPLETED"})

\* C30: once every handler has returned, the room has been sent one
\* session_started per start of the session, one session_ended per end
\* and one token_rewarded per completed reward
C30_OneEventPerTransition ==
    AllFree =>
        /\ net.started = hist.startWrites
        /\ net.ended = hist.endWrites
        /\ net.rewarded = RewardsCompleted

\* C35: in every reachable state scheduledEndTime is set only if the
\* session is LIVE (unset in WAITING, cleared by the transition to ENDED),
\* and while set it is startTime plus the configured duration
C35_ScheduledEndOnlyWhileLive ==
    session.scheduledEndTime # NoTime =>
        /\ session.status = "LIVE"
        /\ session.scheduledEndTime = session.startTime + cfg.durationMinutes

\* C33: a join or leave that has committed a write (the ParticipantSession
\* saved, the membership list saved) does not end by reporting a failure
C33_NoFailureAfterWrite ==
    [][\A p \in Procs :
          (/\ loc[p].op \in {"join", "leave"}
           /\ loc[p].pc \in {"j_add", "j_inc", "l_rm"}
           /\ loc'[p].pc = "idle")
          => last'.res \in {"ok", "started"}]_vars

\* C37: when no join or leave is in progress, a user is in the membership
\* list exactly if the user has an active ParticipantSession, no user is in
\* the list twice, and the membership count is the number of active
\* ParticipantSessions
C37_MembershipMatchesRows ==
    AllFree =>
        /\ \A u \in Users :
              /\ session.players[u] <= 1
              /\ session.players[u] > 0 <=> (ps[u].exists /\ ps[u].isActive)
        /\ playerCount(session.players) = Cardinality(ActivePlayers)

\* C39: once every handler has returned, a user's sessions-won count is 1
\* if the session is ENDED with that user as its winner and 0 otherwise,
\* whether the payout of the reward succeeded or failed
C39_SessionsWonMatchesWinner ==
    AllFree =>
        \A u \in Users :
            users[u].totalSessionsWon =
                IF session.status = "ENDED" /\ session.winner = u THEN 1 ELSE 0

\* C40: a join that found the caller's ParticipantSession inactive saves
\* that row with isActive true and leftAt cleared and with score,
\* tasksCompleted and joinedAt as they were; no other row changes
C40_RejoinReactivates ==
    [][\A p \in Procs :
          (Steps(p, "join") /\ loc[p].pc = "j_ps"
           /\ loc[p].existing = "inactive") =>
              LET u == loc[p].user IN
              /\ ps'[u].exists /\ ps'[u].isActive
              /\ ps'[u].leftAt = NoTime
              /\ ps'[u].score = ps[u].score
              /\ ps'[u].tasksCompleted = ps[u].tasksCompleted
              /\ ps'[u].joinedAt = ps[u].joinedAt
              /\ \A v \in Users \ {u} : ps'[v] = ps[v]]_vars

\* a participant with a score has left and has joined again
C40_RejoinedWithScore ==
    \E u \in Users :
        /\ last = [op |-> "join", user |-> u, res |-> "ok"]
        /\ users[u].totalSessionsJoined = 2
        /\ ps[u].isActive /\ ps[u].leftAt = NoTime
        /\ ps[u].score > 0
        /\ ps[u].joinedAt < now

\* C36: score and tasksCompleted of every ParticipantSession are never
\* negative, and a score update carrying a negative value succeeds with
\* zero stored in place of the negative value
C36_NegativeWriteClamped ==
    [][/\ \A u \in Users : ps'[u].score >= 0 /\ ps'[u].tasksCompleted >= 0
       /\ \A p \in Procs :
            (Steps(p, "score") /\ loc[p].pc = "u_save") =>
                LET u == loc[p].user IN
                /\ IsNegative(loc[p].score) =>
                      (last'.res = "ok" /\ ps'[u].score = 0)
                /\ IsNegative(loc[p].tasks) =>
                      (last'.res = "ok" /\ ps'[u].tasksCompleted = 0)]_vars

\* TokenReward.getUserTotalRewards: the sum of tokenAmount over the first n
\* RewardRecords that belong to the user and are COMPLETED
RECURSIVE CompletedAmount(_, _)
CompletedAmount(u, n) ==
    IF n = 0 THEN 0
    ELSE CompletedAmount(u, n - 1)
         + (IF rewards[n].userId = u /\ rewards[n].status = "COMPLETED"
            THEN rewards[n].tokenAmount ELSE 0)

\* C38: once every handler has returned, each user's totalTokensEarned is
\* the sum of tokenAmount over the user's COMPLETED RewardRecords
C38_TokensEarnedMatchesRewards ==
    AllFree =>
        \A u \in Users :
            users[u].totalTokensEarned = CompletedAmount(u, Len(rewards))

\* C32: with the explicit leave (socket or REST) and the cleanup after the
\* connection loss of one participant interleaved in any way, the
\* membership list is saved once, player_left is emitted once at most, no
\* other participant's row or membership changes, and when both have
\* returned a participant marked inactive is out of the membership list
C32_LeaveTakesEffectOnce ==
    [][/\ session'.ver <= JoinedVersion + 1
       /\ \A u \in Users :
            /\ net'.playerLeft[u] <= 1
            /\ (/\ \A p \in Procs : loc'[p].pc = "idle"
                /\ ps'[u].exists /\ ~ps'[u].isActive)
               => session'.players[u] = 0
       /\ \A p \in Procs :
            Steps(p, "leave") =>
                \A v \in Users \ {loc[p].user} :
                    ps'[v] = ps[v] /\ session'.players[v] = session.players[v]]_vars

\* the cleanup and the explicit leave ran together: one of them removed
\* the participant and announced it, the other failed on the version
C32_LeaveRacedCleanup ==
    /\ AllFree
    /\ last.op = "leave" /\ last.res = "VersionError"
    /\ last.user \in net.closed
    /\ net.playerLeft[last.user] = 1
    /\ ~ps[last.user].isActive
    /\ session.players[last.user] = 0

C34_EventsInCommitOrder ==
    /\ \A i \in 1..Len(net.scoreUpdated) :
          net.scoreUpdated[i].seq \in 1..Len(net.scoreCommits)
    /\ \A i, j \in 1..Len(net.scoreUpdated) :
          i < j => net.scoreUpdated[i].seq < net.scoreUpdated[j].seq

====
